---- MODULE Spec2Model ----
(***************************************************************************)
(* Request handlers of renovaapp-v4: the /database loader in its five      *)
(* versions (JSON export, CSV export, page only, page only pt-BR, status   *)
(* only), the two versions of the /login action, the index loader, the     *)
(* admin loader and action and the logout action, run against a D1 store   *)
(* that a concurrent writer may change and whose statements may fail.  An  *)
(* async loader is cut at its awaits: one action per continuation          *)
(* (everything the code runs between two awaits).  The serializers of the  *)
(* export (convertToCSV, JSON.stringify) work on texts as sequences of     *)
(* characters; FnSpec applies them to row sets drawn from bounded sets.    *)
(***************************************************************************)
EXTENDS Integers, Sequences, FiniteSets, TLC

\* ------------------------------------------------------------------ bounds
\* Largest number of rows a table of the store holds.
MaxRows == 11
\* Largest id the store gives a row of tb_perfil.
MaxPerfilId == 3
\* Largest number of characters the texts of a serialized row set hold together.
MaxChars == 2

\* ------------------------------------------------------- program constants
\* LIMIT of the interactive row sample.
RowLimit == 10

\* --------------------------------------------------------------- JS values
\* null / undefined of a value that is otherwise a list or a message.
Null == [null |-> TRUE]
Some(x) == [val |-> x]
\* null of a value that is otherwise a string (searchParams.get of an absent
\* parameter, FormData.get of an absent field).
NullStr == "<null>"
\* JS truthiness of a string-or-null.
Truthy(s) == s # NullStr /\ s # ""
\* `s || ''`
OrEmpty(s) == IF Truthy(s) THEN s ELSE ""
\* A template literal with one interpolated string.
Tpl(t, a) == [tpl |-> t, arg |-> a]
\* A string passed through unchanged.
Raw(m) == Tpl("%", m)

\* A text is the sequence of its characters; a scalar cell of a row is a text,
\* a number, a boolean, null or undefined.
Str(s) == [type |-> "string", s |-> s, n |-> 0, b |-> FALSE]
Num(n) == [type |-> "number", s |-> <<>>, n |-> n, b |-> FALSE]
Bool(b) == [type |-> "boolean", s |-> <<>>, n |-> 0, b |-> b]
JsNull == [type |-> "null", s |-> <<>>, n |-> 0, b |-> FALSE]
Undefined == [type |-> "undefined", s |-> <<>>, n |-> 0, b |-> FALSE]
\* A row object: its properties in insertion order.
Prop(k, v) == [k |-> k, v |-> v]
\* Object.keys(row)
ObjectKeys(row) == [i \in 1..Len(row) |-> row[i].k]
\* row[key]
Get(row, key) ==
  IF \E i \in 1..Len(row) : row[i].k = key
  THEN row[CHOOSE i \in 1..Len(row) : row[i].k = key].v
  ELSE Undefined

\* The decimal digits of a natural number.
RECURSIVE Digits(_)
Digits(n) ==
  IF n < 10 THEN <<<<"0", "1", "2", "3", "4", "5", "6", "7", "8", "9">>[n + 1]>>
  ELSE Digits(n \div 10) \o Digits(n % 10)
\* String(value) of a cell that is neither null nor undefined (integers only).
StringOf(v) ==
  IF v.type = "string" THEN v.s
  ELSE IF v.type = "number" THEN (IF v.n < 0 THEN <<"-">> \o Digits(0 - v.n) ELSE Digits(v.n))
  ELSE IF v.b THEN <<"t", "r", "u", "e">> ELSE <<"f", "a", "l", "s", "e">>

\* The texts of a list, one after the other.
RECURSIVE Concat(_)
Concat(parts) == IF Len(parts) = 0 THEN <<>> ELSE Head(parts) \o Concat(Tail(parts))
\* parts.join(sep)
Join(parts, sep) ==
  Concat([i \in 1..(2 * Len(parts) - 1) |-> IF i % 2 = 1 THEN parts[(i + 1) \div 2] ELSE sep])

\* ------------------------------------------------------------------- store
\* Tables of the store, in ascending lexicographic order of their names.
AllTables == <<"tb_perfil", "tb_usuario">>
TableNames == {AllTables[i] : i \in 1..Len(AllTables)}
\* Values of the `table` query parameter: absent, empty, existing, unknown.
TableParams == {NullStr, "", "nope"} \cup TableNames
RowCounts == {0, MaxRows - RowLimit, MaxRows}

\* Messages of the errors the store throws.
StoreDown == "D1_ERROR: store unreachable"
NoSuchTable(t) == IF t = "tb_perfil" THEN "no such table: tb_perfil"
                  ELSE IF t = "tb_usuario" THEN "no such table: tb_usuario"
                  ELSE "no such table"
\* A thrown D1 error.
Err(m) == [isError |-> TRUE, message |-> m]

\* Column descriptors PRAGMA table_info returns for an existing table.
Columns(t) == IF t = "tb_perfil"
              THEN << [name |-> "idtb_perfil", type |-> "INTEGER", notnull |-> 1, pk |-> 1],
                      [name |-> "ds_perfil", type |-> "TEXT", notnull |-> 0, pk |-> 0] >>
              ELSE << [name |-> "idtb_usuario", type |-> "INTEGER", notnull |-> 1, pk |-> 1],
                      [name |-> "matricula", type |-> "TEXT", notnull |-> 0, pk |-> 0] >>
\* The characters of a column name.
Chars(name) ==
  IF name = "idtb_perfil" THEN <<"i", "d", "t", "b", "_", "p", "e", "r", "f", "i", "l">>
  ELSE IF name = "ds_perfil" THEN <<"d", "s", "_", "p", "e", "r", "f", "i", "l">>
  ELSE IF name = "idtb_usuario" THEN <<"i", "d", "t", "b", "_", "u", "s", "u", "a", "r", "i", "o">>
  ELSE <<"m", "a", "t", "r", "i", "c", "u", "l", "a">>
\* The TEXT cell of the i-th row: a plain text, a text with a comma and quotes,
\* NULL, the empty text.
TextCell(i) ==
  IF i % 4 = 1 THEN Str(<<"A", "n", "a">>)
  ELSE IF i % 4 = 2 THEN Str(<<"a", ",", "\"", "b", "\"">>)
  ELSE IF i % 4 = 3 THEN JsNull
  ELSE Str(<<>>)
\* The i-th row of a table, in the store's order: its key and its TEXT column.
Row(t, i) ==
  << Prop(Chars(Columns(t)[1].name), Num(i)), Prop(Chars(Columns(t)[2].name), TextCell(i)) >>
\* n capped at k.
Min(n, k) == IF n < k THEN n ELSE k
\* (mutant) the export query carries the page's LIMIT.
AllRows_Limited(t, n) == [i \in 1..Min(n, RowLimit) |-> Row(t, i)]
\* All rows of a table holding n rows.
AllRows(t, n) == [i \in 1..n |-> Row(t, i)]

VARIABLES
  dbTables,      \* names of the tables the store holds now
  dbRowCount,    \* number of rows of each table
  dbPerfil,      \* rows of tb_perfil as the admin route reads and writes them
  cookie,        \* session data held by the client's __session cookie
  pc,            \* position of the request being handled
  req,           \* the request being handled (or the last one handled)
  tables,        \* loader local `tables`
  tablesAt,      \* the tables the store held when the table-list query ran
  schema,        \* loader local `schema`
  rows,          \* loader local `rows`
  queryError,    \* loader local `queryError`
  inflight,      \* store statements issued and not yet settled
  issued,        \* store statements prepared by this request, in order
  settled,       \* number of statements of this request that have settled
  thrown,        \* the error a statement of this request threw, with the statement
  missingAtExec, \* a statement naming the table ran when the store no longer held it
  session,       \* the handler's Session object
  setCalls,      \* keys passed to session.set by this request, in order
  loginReturn,   \* what auth.server login() returned to the action that called it
  result,        \* what the handler returned (or threw)
  selectedTable, \* DataTable prop: the table of the page the browser shows
  isDownloading, \* DataTable state
  downloadError, \* DataTable state
  download,      \* position of handleDownload: idle, sent, waiting, reading
  response,      \* handleDownload local `response`
  saved,         \* the file the last completed download handed to the browser
  attempt,       \* how the last call of handleDownload ended
  received       \* the last /database request the browser made, with its cookie and answer

vars == <<dbTables, dbRowCount, dbPerfil, cookie, pc, req, tables, tablesAt,
          schema, rows, queryError, inflight, issued, settled, thrown, missingAtExec,
          session, setCalls, loginReturn, result,
          selectedTable, isDownloading, downloadError, download, response, saved, attempt,
          received>>

loginVars == <<session, setCalls, loginReturn>>
\* The browser's side of the database page.
clientVars == <<selectedTable, isDownloading, downloadError, download, response, saved, attempt,
               received>>

\* DataTable as it mounts for the page of table t: useState(false), useState(null),
\* handleDownload not running.
DataTableMounted(t) ==
  /\ selectedTable = t
  /\ isDownloading = FALSE /\ downloadError = Null
  /\ download = "idle" /\ response = Null /\ saved = Null /\ attempt = "none"

\* A session holding no value.
EmptySession == [userId |-> Null, userName |-> Null, userProfile |-> Null]

\* ------------------------------------------------------------- statements
\* "SELECT name FROM sqlite_master WHERE type='table' ORDER BY name"
TablesStmt == [sql |-> "tables", orderBy |-> TRUE, table |-> NullStr, quoted |-> FALSE, bind |-> NullStr]
\* "SELECT name FROM sqlite_master WHERE type='table'"
TablesStmtUnordered == [sql |-> "tables", orderBy |-> FALSE, table |-> NullStr, quoted |-> FALSE, bind |-> NullStr]
\* `PRAGMA table_info("${tableName}")`
SchemaStmt(t, q) == [sql |-> "schema", orderBy |-> FALSE, table |-> t, quoted |-> q, bind |-> NullStr]
\* `SELECT * FROM "${tableName}" LIMIT 10`
RowsStmt(t, q) == [sql |-> "rows", orderBy |-> FALSE, table |-> t, quoted |-> q, bind |-> NullStr]
\* `SELECT * FROM "${tableName}"`
AllRowsStmt(t) == [sql |-> "allrows", orderBy |-> FALSE, table |-> t, quoted |-> TRUE, bind |-> NullStr]
\* A statement whose text interpolates the request's table parameter.
Interpolates(s) == s.sql \in {"schema", "rows", "allrows"}

\* The names of S in ascending order.
SortedNames(S) == SelectSeq(AllTables, LAMBDA t : t \in S)
\* Every order in which the names of S can be listed.
Orders(S) == {f \in [1..Cardinality(S) -> S] : \A i, j \in 1..Cardinality(S) : f[i] = f[j] => i = j}
\* What the table-list statement can return for a store holding S.
TableListResults(stmt, S) == IF stmt.orderBy THEN {SortedNames(S)} ELSE Orders(S)
\* tables.includes(name)
Includes(list, name) == \E i \in 1..Len(list) : list[i] = name

\* ---------------------------------------------------------------- loaders
Variants == {"json", "csv", "simple", "ptbr", "status"}
PageVariants == {"json", "csv", "simple", "ptbr"}
ExportVariants == {"json", "csv"}

\* `e instanceof Error ? e.message : "..."`
ErrorMessage(e, fallback) == IF e.isError THEN e.message ELSE fallback


\* ---------------------------------------------------------------- responses
\* A loader or action returning a plain object.
Data(d) == [kind |-> "data", data |-> d]
\* new Response(body, {status, headers})
Resp(status, body, headers) == [kind |-> "response", status |-> status, body |-> body, headers |-> headers]
\* Headers of `new Response(string, {status})`: the runtime labels a string body.
TextHeaders == ("Content-Type" :> "text/plain;charset=UTF-8")

\* Which path of the loader a request takes.
\*   json   (database.tsx:40)  if (shouldDownload)
\*   csv    (part_002:54)      if (shouldDownload && tableName)
\*   simple, ptbr              read no download parameter
\*   status                    reads no parameter at all
PathOf(v, tableName, shouldDownload) ==
  IF v = "status" THEN "list"
  ELSE IF v = "json" THEN (IF shouldDownload THEN "export" ELSE "page")
  ELSE IF v = "csv" THEN (IF shouldDownload /\ Truthy(tableName) THEN "export" ELSE "page")
  ELSE "page"

\* (mutant) no table-list statement has an ORDER BY.
FirstStmt_Unordered(v, path) == TablesStmtUnordered
\* The table-list statement a path prepares: the CSV export path has no ORDER BY.
FirstStmt(v, path) == IF v = "csv" /\ path = "export" THEN TablesStmtUnordered ELSE TablesStmt

\* Whether the version wraps the interpolated name in double quotes.
Quoted(v) == v # "ptbr"

\* The returned object of a page whose table list was read.
PageOk(list, qe, t, sch, rws) ==
  Data([connection |-> "success", tables |-> list, error |-> qe,
        selectedTable |-> t, schema |-> sch, rows |-> rws])
\* (mutant) the failed page reports a fixed text instead of the error's message.
PageFailed_NoMessage(msg) ==
  Data([connection |-> "failed", tables |-> <<>>, error |-> Raw("An unknown error occurred."),
        selectedTable |-> NullStr, schema |-> Null, rows |-> Null])
\* The returned object of a page whose table list could not be read.
PageFailed(msg) ==
  Data([connection |-> "failed", tables |-> <<>>, error |-> Raw(msg),
        selectedTable |-> NullStr, schema |-> Null, rows |-> Null])
\* The status-only loader's two returned objects.
StatusOk(list) == Data([connection |-> "success", tables |-> list, error |-> Null])
StatusFailed(msg) == Data([connection |-> "failed", tables |-> <<>>, error |-> Raw(msg)])

\* (mutant) the export path tests only that a name was given.
ExportNotFound_NoMembership(v, t, list) == ~Truthy(t)
\* (mutant) the export is refused to a client without a session.
ExportNotFound_NeedsSession(v, t, list) ==
  \/ cookie.userId = Null
  \/ IF v = "json" THEN ~Truthy(t) \/ ~Includes(list, t) ELSE ~Includes(list, t)
\* The export path's membership test.
\*   json (database.tsx:41)  !tableName || !tables.includes(tableName)
\*   csv  (part_002:60)      !tables.includes(tableName)
ExportNotFound(v, t, list) ==
  IF v = "json" THEN ~Truthy(t) \/ ~Includes(list, t) ELSE ~Includes(list, t)
\* (mutant) the 404 does not say which table.
NotFoundResponse_Unnamed(v, t) == Resp(404, Tpl("Error: Table not found.", ""), TextHeaders)
\* The 404 of the export path.
NotFoundResponse(v, t) ==
  IF v = "json"
  THEN Resp(404, Tpl("Error: Table \"%\" not found or not specified.", OrEmpty(t)), TextHeaders)
  ELSE Resp(404, Tpl("Error: Table \"%\" not found.", t), TextHeaders)

\* The page path's inline message for a named table that is not in the list.
\*   json, simple  queryError = `Table "${tableName}" not found.`
\*   csv           queryError = `Tabela "${tableName}" não encontrada.`
\*   ptbr          if (tableName && tables.includes(tableName)) {...} has no else
PageNotFoundError(v, t) ==
  IF v = "ptbr" THEN Null
  ELSE IF v = "csv" THEN Tpl("Tabela \"%\" nao encontrada.", t)
  ELSE Tpl("Table \"%\" not found.", t)

\* Fallback texts of `e instanceof Error ? e.message : ...`.
ListFallback(v) == IF v \in {"json", "simple"} THEN "An unknown error occurred."
                   ELSE "Ocorreu um erro desconhecido."
QueryFallback(v) == IF v \in {"json", "simple"} THEN "An unknown error occurred while querying the table."
                    ELSE "Ocorreu um erro desconhecido ao consultar a tabela."

\* The inner catch of the page path: the message is kept and the page is
\* returned with whatever `schema` and `rows` hold at that point.
CaughtQueryError_DropsSchema(v, list, t, sch, rws, e) ==
  PageOk(list, Raw(ErrorMessage(e, QueryFallback(v))), t, Null, rws)
CaughtQueryError(v, list, t, sch, rws, e) ==
  PageOk(list, Raw(ErrorMessage(e, QueryFallback(v))), t, sch, rws)

\* What a continuation leaves behind: it returned, or it awaits statements.
Done(qe, res) == [pc |-> "done", stmts |-> <<>>, queryError |-> qe, result |-> res]
Await(p, stmts) == [pc |-> p, stmts |-> stmts, queryError |-> Null, result |-> Null]

\* (mutant) schema and row sample are started together (Promise.all).
AfterTables_Parallel(v, path, t, list) ==
  IF path = "list" THEN Done(Null, StatusOk(list))
  ELSE IF path = "export"
  THEN IF ExportNotFound(v, t, list)
       THEN Done(Null, NotFoundResponse(v, t))
       ELSE Await("await_allrows", <<AllRowsStmt(t)>>)
  ELSE IF ~Truthy(t) THEN Done(Null, PageOk(list, Null, t, Null, Null))
  ELSE IF ~Includes(list, t)
  THEN Done(PageNotFoundError(v, t), PageOk(list, PageNotFoundError(v, t), t, Null, Null))
  ELSE Await("await_schema", <<SchemaStmt(t, Quoted(v)), RowsStmt(t, Quoted(v))>>)
\* The loader from the settled table-list query to its next await or return.
AfterTables(v, path, t, list) ==
  IF path = "list" THEN Done(Null, StatusOk(list))
  ELSE IF path = "export"
  THEN IF ExportNotFound(v, t, list)
       THEN Done(Null, NotFoundResponse(v, t))
       ELSE Await("await_allrows", <<AllRowsStmt(t)>>)
  ELSE IF ~Truthy(t) THEN Done(Null, PageOk(list, Null, t, Null, Null))
  ELSE IF ~Includes(list, t)
  THEN Done(PageNotFoundError(v, t), PageOk(list, PageNotFoundError(v, t), t, Null, Null))
  ELSE Await("await_schema", <<SchemaStmt(t, Quoted(v))>>)

\* The catch around the table-list query.
\*   json: one catch for both paths (database.tsx:27-37), the failed page object
\*   csv:  export path -> 500 (part_002:77-81); page path -> failed page object
TablesFailed(v, path, e) ==
  IF path = "list" THEN StatusFailed(ErrorMessage(e, ListFallback(v)))
  ELSE IF v = "csv" /\ path = "export"
  THEN Resp(500, Tpl("Failed to export CSV: %", ErrorMessage(e, "An unknown error occurred.")), TextHeaders)
  ELSE PageFailed(ErrorMessage(e, ListFallback(v)))

\* (mutant) the export's catch rethrows.
ExportFailed_Rethrows(v, e) == [kind |-> "throw", message |-> e.message]
\* The catch around the full-row query of an export.
ExportFailed(v, e) ==
  IF v = "json"
  THEN Resp(500, Tpl("Failed to export JSON: %", ErrorMessage(e, "An unknown error occurred.")), TextHeaders)
  ELSE Resp(500, Tpl("Failed to export CSV: %", ErrorMessage(e, "An unknown error occurred.")), TextHeaders)

\* ------------------------------------------------------------ serializers
\* stringValue.includes(c) for one of the characters cs
IncludesAny(s, cs) == \E i \in 1..Len(s) : s[i] \in cs
\* (mutant) the value is wrapped but its quotes are not doubled.
CsvField_QuotesNotDoubled(value) ==
  LET stringValue == IF value.type \in {"null", "undefined"} THEN <<>> ELSE StringOf(value)
  IN IF IncludesAny(stringValue, {"\"", ",", "\n", "\r"})
     THEN <<"\"">> \o stringValue \o <<"\"">>
     ELSE stringValue
\* (mutant) null and undefined are stringified like any value.
CsvField_NullAsText(value) ==
  LET stringValue == IF value.type = "null" THEN <<"n", "u", "l", "l">>
                     ELSE IF value.type = "undefined"
                     THEN <<"u", "n", "d", "e", "f", "i", "n", "e", "d">>
                     ELSE StringOf(value)
  IN IF IncludesAny(stringValue, {"\"", ",", "\n", "\r"})
     THEN <<"\"">> \o Concat([i \in 1..Len(stringValue) |->
                                IF stringValue[i] = "\"" THEN <<"\"", "\"">>
                                ELSE <<stringValue[i]>>]) \o <<"\"">>
     ELSE stringValue
\* One cell of a CSV line (the body of headers.map).
CsvField(value) ==
  LET stringValue == IF value.type \in {"null", "undefined"} THEN <<>> ELSE StringOf(value)
  IN IF IncludesAny(stringValue, {"\"", ",", "\n", "\r"})
     THEN <<"\"">> \o Concat([i \in 1..Len(stringValue) |->
                                IF stringValue[i] = "\"" THEN <<"\"", "\"">>
                                ELSE <<stringValue[i]>>]) \o <<"\"">>
     ELSE stringValue
\* (mutant) no guard for the empty row set, and every line ends with \n.
convertToCSV_LinesTerminated(data) ==
  LET headers == IF Len(data) = 0 THEN <<>> ELSE ObjectKeys(data[1])
      csvRows == <<Join(headers, <<",">>)>> \o
                 [i \in 1..Len(data) |->
                    Join([j \in 1..Len(headers) |-> CsvField(Get(data[i], headers[j]))], <<",">>)]
  IN Concat([i \in 1..Len(csvRows) |-> csvRows[i] \o <<"\n">>])
\* convertToCSV(data)
convertToCSV(data) ==
  IF Len(data) = 0 THEN <<>>
  ELSE LET headers == ObjectKeys(data[1])
           csvRows == <<Join(headers, <<",">>)>> \o
                      [i \in 1..Len(data) |->
                         Join([j \in 1..Len(headers) |-> CsvField(Get(data[i], headers[j]))],
                              <<",">>)]
       IN Join(csvRows, <<"\n">>)

\* (mutant) a text is written between quotes as it is.
JsonQuote_NoEscape(s) == <<"\"">> \o s \o <<"\"">>
\* JSON text of a string: quotes, backslashes and line breaks are escaped.
JsonQuote(s) ==
  <<"\"">> \o Concat([i \in 1..Len(s) |->
                        IF s[i] = "\"" THEN <<"\\", "\"">>
                        ELSE IF s[i] = "\\" THEN <<"\\", "\\">>
                        ELSE IF s[i] = "\n" THEN <<"\\", "n">>
                        ELSE IF s[i] = "\r" THEN <<"\\", "r">>
                        ELSE <<s[i]>>]) \o <<"\"">>
\* JSON text of a scalar (integers only).
JsonScalar(v) ==
  IF v.type = "string" THEN JsonQuote(v.s)
  ELSE IF v.type = "null" THEN <<"n", "u", "l", "l">>
  ELSE StringOf(v)
\* JSON text of a row inside the array, indent 2: properties holding undefined
\* are left out.
JsonObject(row) ==
  LET props == SelectSeq(row, LAMBDA p : p.v.type # "undefined")
  IN IF Len(props) = 0 THEN <<"{", "}">>
     ELSE <<"{", "\n">> \o
          Join([i \in 1..Len(props) |->
                  <<" ", " ", " ", " ">> \o JsonQuote(props[i].k) \o <<":", " ">> \o
                  JsonScalar(props[i].v)], <<",", "\n">>) \o
          <<"\n", " ", " ", "}">>
\* JSON.stringify(data, null, 2)
JSONStringify(data) ==
  IF Len(data) = 0 THEN <<"[", "]">>
  ELSE <<"[", "\n">> \o
       Join([i \in 1..Len(data) |-> <<" ", " ">> \o JsonObject(data[i])], <<",", "\n">>) \o
       <<"\n", "]">>

\* The byte-order mark U+FEFF, one character.
BOM == "<U+FEFF>"
\* (mutant) the body of the last download is kept and served again.
ExportBody_Cached(v, data) ==
  IF v = "json" /\ saved # Null /\ "bytes" \in DOMAIN saved.val.blob THEN saved.val.blob.bytes
  ELSE IF v = "json" THEN JSONStringify(data) ELSE <<BOM>> \o convertToCSV(data)
\* The export attachment.
ExportBody(v, data) == IF v = "json" THEN JSONStringify(data) ELSE <<BOM>> \o convertToCSV(data)
\* (mutant) every attachment is called export.
ExportHeaders_FixedName(v, t) ==
  IF v = "json"
  THEN ("Content-Type" :> "application/json") @@
       ("Content-Disposition" :> Tpl("attachment; filename=\"%.json\"", "export"))
  ELSE ("Content-Type" :> "text/csv; charset=utf-8") @@
       ("Content-Disposition" :> Tpl("attachment; filename=\"%.csv\"", "export"))
ExportHeaders(v, t) ==
  IF v = "json"
  THEN ("Content-Type" :> "application/json") @@
       ("Content-Disposition" :> Tpl("attachment; filename=\"%.json\"", t))
  ELSE ("Content-Type" :> "text/csv; charset=utf-8") @@
       ("Content-Disposition" :> Tpl("attachment; filename=\"%.csv\"", t))
ExportOk(v, t, data) == Resp(200, ExportBody(v, data), ExportHeaders(v, t))

\* ------------------------------------------------- the store's behaviour
\* Errors a statement can throw against a store holding the tables S.
StoreFailures(stmt, S) ==
  {Err(StoreDown)} \cup
  (IF Interpolates(stmt) /\ stmt.table \notin S THEN {Err(NoSuchTable(stmt.table))} ELSE {})
\* Whether a statement can succeed: a SELECT needs its table; table_info of a
\* missing table yields no columns.
CanSucceed(stmt, S) == stmt.sql \in {"rows", "allrows"} => stmt.table \in S
\* Results of a successful statement.
SchemaResults(t, S) == IF t \in S THEN Columns(t) ELSE <<>>
\* (mutant) the row sample has no LIMIT.
RowsResults_NoLimit(t, n) == AllRows(t, n)
\* `SELECT * FROM "${tableName}" LIMIT 10`
RowsResults(t, n) == SubSeq(AllRows(t, n), 1, Min(n, RowLimit))

\* The record of a throw: the statement and the error's message.
Thrown(stmt, e) == [sql |-> stmt.sql, message |-> e.message]

\* ----------------------------------------------------------------- actions
\* No request is being handled.
Idle == pc = "idle"
\* The statement in flight (the code awaits one at a time).
TheStmt == CHOOSE s \in inflight : TRUE

\* A request arrives; the loader runs to its first await.
RequestArrives(v, tableName, shouldDownload) ==
  /\ Idle
  /\ req' = [handler |-> "database", v |-> v, tableName |-> tableName,
             shouldDownload |-> shouldDownload,
             path |-> PathOf(v, tableName, shouldDownload)]
  /\ issued' = <<FirstStmt(v, PathOf(v, tableName, shouldDownload))>>
  /\ inflight' = {FirstStmt(v, PathOf(v, tableName, shouldDownload))}
  /\ pc' = "await_tables"
  /\ tables' = Null /\ tablesAt' = {} /\ schema' = Null /\ rows' = Null /\ queryError' = Null
  /\ settled' = 0 /\ thrown' = Null /\ missingAtExec' = FALSE /\ result' = Null
  /\ session' = EmptySession /\ setCalls' = <<>> /\ loginReturn' = Null
  /\ UNCHANGED <<dbTables, dbRowCount, dbPerfil, cookie>>
\* GET /database of any client: the browser's page is not touched.
LoaderBegin(v, tableName, shouldDownload) ==
  /\ RequestArrives(v, tableName, shouldDownload)
  /\ UNCHANGED clientVars

\* The table-list query returns.
LoaderTablesOk ==
  /\ pc = "await_tables"
  /\ \E list \in TableListResults(issued[1], dbTables) :
       LET k == AfterTables(req.v, req.path, req.tableName, list) IN
       /\ tables' = Some(list)
       /\ tablesAt' = dbTables
       /\ queryError' = k.queryError
       /\ pc' = k.pc
       /\ result' = k.result
       /\ issued' = issued \o k.stmts
       /\ inflight' = {k.stmts[i] : i \in 1..Len(k.stmts)}
  /\ settled' = settled + 1
  /\ UNCHANGED loginVars
  /\ UNCHANGED clientVars
  /\ UNCHANGED <<dbTables, dbRowCount, dbPerfil, cookie, req, thrown, schema, rows, missingAtExec>>

\* The table-list query throws.
LoaderTablesFail ==
  /\ pc = "await_tables"
  /\ \E e \in StoreFailures(issued[1], dbTables) :
       /\ result' = TablesFailed(req.v, req.path, e)
       /\ thrown' = Thrown(issued[1], e)
  /\ pc' = "done"
  /\ inflight' = {}
  /\ settled' = settled + 1
  /\ UNCHANGED loginVars
  /\ UNCHANGED clientVars
  /\ UNCHANGED <<dbTables, dbRowCount, dbPerfil, cookie, req, tables, tablesAt, schema, rows, queryError, issued, missingAtExec>>

\* PRAGMA table_info returns; the loader prepares the row sample.
LoaderSchemaOk ==
  /\ pc = "await_schema"
  /\ schema' = Some(SchemaResults(req.tableName, dbTables))
  /\ issued' = Append(issued, RowsStmt(req.tableName, Quoted(req.v)))
  /\ inflight' = {RowsStmt(req.tableName, Quoted(req.v))}
  /\ pc' = "await_rows"
  /\ settled' = settled + 1
  /\ missingAtExec' = (missingAtExec \/ req.tableName \notin dbTables)
  /\ UNCHANGED loginVars
  /\ UNCHANGED clientVars
  /\ UNCHANGED <<dbTables, dbRowCount, dbPerfil, cookie, req, thrown, tables, tablesAt, rows, queryError, result>>

\* PRAGMA table_info throws: the inner catch.
LoaderSchemaFail ==
  /\ pc = "await_schema"
  /\ \E e \in StoreFailures(TheStmt, dbTables) :
       /\ queryError' = Raw(ErrorMessage(e, QueryFallback(req.v)))
       /\ result' = CaughtQueryError(req.v, tables.val, req.tableName, schema, rows, e)
       /\ thrown' = Thrown(TheStmt, e)
  /\ pc' = "done"
  /\ inflight' = {}
  /\ settled' = settled + 1
  /\ missingAtExec' = (missingAtExec \/ req.tableName \notin dbTables)
  /\ UNCHANGED loginVars
  /\ UNCHANGED clientVars
  /\ UNCHANGED <<dbTables, dbRowCount, dbPerfil, cookie, req, tables, tablesAt, schema, rows, issued>>

\* The row sample returns.
LoaderRowsOk ==
  /\ pc = "await_rows"
  /\ CanSucceed(TheStmt, dbTables)
  /\ rows' = Some(RowsResults(req.tableName, dbRowCount[req.tableName]))
  /\ result' = PageOk(tables.val, queryError, req.tableName, schema,
                      Some(RowsResults(req.tableName, dbRowCount[req.tableName])))
  /\ pc' = "done"
  /\ inflight' = {}
  /\ settled' = settled + 1
  /\ UNCHANGED loginVars
  /\ UNCHANGED clientVars
  /\ UNCHANGED <<dbTables, dbRowCount, dbPerfil, cookie, req, thrown, tables, tablesAt, schema, queryError, issued, missingAtExec>>

\* The row sample throws: the same inner catch, schema already assigned.
LoaderRowsFail ==
  /\ pc = "await_rows"
  /\ \E e \in StoreFailures(TheStmt, dbTables) :
       /\ queryError' = Raw(ErrorMessage(e, QueryFallback(req.v)))
       /\ result' = CaughtQueryError(req.v, tables.val, req.tableName, schema, rows, e)
       /\ thrown' = Thrown(TheStmt, e)
  /\ pc' = "done"
  /\ inflight' = {}
  /\ settled' = settled + 1
  /\ missingAtExec' = (missingAtExec \/ req.tableName \notin dbTables)
  /\ UNCHANGED loginVars
  /\ UNCHANGED clientVars
  /\ UNCHANGED <<dbTables, dbRowCount, dbPerfil, cookie, req, tables, tablesAt, schema, rows, issued>>

\* The full-row query of an export returns.
LoaderAllRowsOk ==
  /\ pc = "await_allrows"
  /\ CanSucceed(TheStmt, dbTables)
  /\ result' = ExportOk(req.v, req.tableName, AllRows(req.tableName, dbRowCount[req.tableName]))
  /\ pc' = "done"
  /\ inflight' = {}
  /\ settled' = settled + 1
  /\ UNCHANGED loginVars
  /\ UNCHANGED clientVars
  /\ UNCHANGED <<dbTables, dbRowCount, dbPerfil, cookie, req, thrown, tables, tablesAt, schema, rows, queryError, issued, missingAtExec>>

\* The full-row query of an export throws.
LoaderAllRowsFail ==
  /\ pc = "await_allrows"
  /\ \E e \in StoreFailures(TheStmt, dbTables) :
       /\ result' = ExportFailed(req.v, e)
       /\ thrown' = Thrown(TheStmt, e)
  /\ pc' = "done"
  /\ inflight' = {}
  /\ settled' = settled + 1
  /\ missingAtExec' = (missingAtExec \/ req.tableName \notin dbTables)
  /\ UNCHANGED loginVars
  /\ UNCHANGED clientVars
  /\ UNCHANGED <<dbTables, dbRowCount, dbPerfil, cookie, req, tables, tablesAt, schema, rows, queryError, issued>>

\* Another client of the store drops a table.
DropTable(t) ==
  /\ t \in dbTables
  /\ dbTables' = dbTables \ {t}
  /\ UNCHANGED loginVars
  /\ UNCHANGED clientVars
  /\ UNCHANGED <<dbRowCount, dbPerfil, cookie, pc, req, thrown, tables, tablesAt, schema, rows, queryError,
                 inflight, issued, settled, missingAtExec, result>>


\* ------------------------------------------------------------------ login
\* Rows of tb_usuario joined with tb_perfil (accents of the texts dropped).
Users ==
  { [idtb_usuario |-> 1, matricula |-> "1001", senha |-> "s1", nome_usuario |-> "Ana",
     ds_perfil |-> "Administrador", st_usuario |-> 1, st_delete |-> 0],
    [idtb_usuario |-> 2, matricula |-> "1002", senha |-> "s2", nome_usuario |-> "Bia",
     ds_perfil |-> "Operador", st_usuario |-> 1, st_delete |-> 0],
    [idtb_usuario |-> 3, matricula |-> "1003", senha |-> "s1", nome_usuario |-> "Caio",
     ds_perfil |-> "Operador", st_usuario |-> 0, st_delete |-> 0],
    [idtb_usuario |-> 4, matricula |-> "1004", senha |-> "s2", nome_usuario |-> "Davi",
     ds_perfil |-> "Operador", st_usuario |-> 1, st_delete |-> 1] }
\* Values of the form fields: absent, empty, the stored ones, an unknown one.
Matriculas == {NullStr, "", "9999"} \cup {u.matricula : u \in Users}
Senhas == {NullStr, "", "s1", "s2"}

\* The user statement, bound to the matricula.
UserStmt(m) == [sql |-> "user", orderBy |-> FALSE, table |-> NullStr, quoted |-> FALSE, bind |-> m]
UserRows_NoStatusFilter(m) == {u \in Users : u.matricula = m}
\* WHERE u.matricula = ? AND u.st_usuario = 1 AND u.st_delete = 0
UserRows(m) == {u \in Users : u.matricula = m /\ u.st_usuario = 1 /\ u.st_delete = 0}
\* .first(): the row, or null.
FirstUser(m) == IF UserRows(m) = {} THEN Null ELSE Some(CHOOSE u \in UserRows(m) : TRUE)
\* What the store can answer to the user statement: the row (both joined tables
\* must exist), or a throw.
UserAnswers(m, S) ==
  {[throws |-> TRUE, e |-> Err(StoreDown), user |-> Null]}
  \cup {[throws |-> TRUE, e |-> Err(NoSuchTable(t)), user |-> Null] : t \in TableNames \ S}
  \cup (IF TableNames \subseteq S THEN {[throws |-> FALSE, e |-> Null, user |-> FirstUser(m)]} ELSE {})

\* json(data, {status})
Json(data, status) == Resp(status, data, ("Content-Type" :> "application/json; charset=utf-8"))
\* commitSession(session): the Set-Cookie value that carries the session's data.
CommitSession(s) == [committed |-> TRUE, data |-> s]
\* redirect(url, {headers: {"Set-Cookie": ...}}): a 302 with no body.
RedirectWithCookie(url, setCookie) ==
  Resp(302, Null, ("Location" :> Tpl("%", url)) @@ ("Set-Cookie" :> setCookie))
\* An exception leaving the handler.
Throw(m) == [kind |-> "throw", message |-> m]

\* `!matricula || !senha` (and, in the inline action, typeof ... !== "string")
MissingField(matricula, senha) == ~Truthy(matricula) \/ ~Truthy(senha)
\* (mutant) the password is not compared.
Rejected_NoPasswordCheck(user, senha) == user = Null
\* `!user || user.senha !== senha`
Rejected(user, senha) == user = Null \/ user.val.senha # senha
\* The three session.set calls of a successful login.
SetLogin(s, u) == [s EXCEPT !.userId = Some(u.idtb_usuario), !.userName = Some(u.nome_usuario),
                            !.userProfile = Some(u.ds_perfil)]
LoginSets == <<"userId", "userName", "userProfile">>

\* What a handler leaves: its session object, its session.set calls and what it
\* returned, plus the statements it prepared and the error it saw.
Outcome(s, sets, ret, stmts, th) ==
  [session |-> s, sets |-> sets, ret |-> ret, stmts |-> stmts, thrown |-> th]

\* The inline login action, given the request's session and the store's answer.
LoginInlineOutcome(s, matricula, senha, a) ==
  IF MissingField(matricula, senha)
  THEN Outcome(s, <<>>, Json([error |-> "Matricula e senha sao obrigatorios."], 400), <<>>, Null)
  ELSE IF a.throws
  THEN Outcome(s, <<>>, Json([error |-> "Ocorreu um erro no servidor. Tente novamente."], 500),
               <<UserStmt(matricula)>>, Thrown(UserStmt(matricula), a.e))
  ELSE IF Rejected(a.user, senha)
  THEN Outcome(s, <<>>, Json([error |-> "Matricula ou senha invalida."], 401),
               <<UserStmt(matricula)>>, Null)
  ELSE Outcome(SetLogin(s, a.user.val), LoginSets,
               RedirectWithCookie("/", CommitSession(SetLogin(s, a.user.val))),
               <<UserStmt(matricula)>>, Null)

\* auth.server login(): no try/catch, and the session is a new one (getSession()).
LoginFnOutcome(matricula, senha, a) ==
  IF MissingField(matricula, senha)
  THEN Outcome(EmptySession, <<>>, Json([error |-> "Matricula e senha sao obrigatorios."], 400), <<>>, Null)
  ELSE IF a.throws
  THEN Outcome(EmptySession, <<>>, Throw(a.e.message),
               <<UserStmt(matricula)>>, Thrown(UserStmt(matricula), a.e))
  ELSE IF Rejected(a.user, senha)
  THEN Outcome(EmptySession, <<>>, Json([error |-> "Matricula ou senha invalida."], 401),
               <<UserStmt(matricula)>>, Null)
  ELSE Outcome(SetLogin(EmptySession, a.user.val), LoginSets,
               RedirectWithCookie("/", CommitSession(SetLogin(EmptySession, a.user.val))),
               <<UserStmt(matricula)>>, Null)

\* The delegating action on what login() gave it: every Response has a json
\* function, so the body is parsed; a redirect has no body and the parse throws.
DelegatingReturn(r) ==
  IF r.kind = "throw" THEN r
  ELSE IF r.body = Null THEN Throw("SyntaxError: Unexpected end of JSON input")
  ELSE Data(r.body)

\* The cookie the client holds after a handler's answer.
ClientCookie(old, ret) ==
  IF ret.kind = "response" /\ "Set-Cookie" \in DOMAIN ret.headers
  THEN ret.headers["Set-Cookie"].data
  ELSE old

\* POST /login, inline version.
LoginInline(matricula, senha) ==
  /\ Idle
  /\ \E a \in UserAnswers(matricula, dbTables) :
       LET o == LoginInlineOutcome(cookie, matricula, senha, a) IN
       /\ session' = o.session
       /\ setCalls' = o.sets
       /\ result' = o.ret
       /\ issued' = o.stmts
       /\ settled' = Len(o.stmts)
       /\ thrown' = o.thrown
       /\ cookie' = ClientCookie(cookie, o.ret)
  /\ req' = [handler |-> "login", v |-> "inline", matricula |-> matricula, senha |-> senha,
             cookie |-> cookie]
  /\ loginReturn' = Null
  /\ pc' = "done"
  /\ inflight' = {}
  /\ tables' = Null /\ tablesAt' = {} /\ schema' = Null /\ rows' = Null /\ queryError' = Null
  /\ missingAtExec' = FALSE
  /\ UNCHANGED clientVars
  /\ UNCHANGED <<dbTables, dbRowCount, dbPerfil>>

\* POST /login, version that delegates to auth.server login().
LoginDelegating(matricula, senha) ==
  /\ Idle
  /\ \E a \in UserAnswers(matricula, dbTables) :
       LET o == LoginFnOutcome(matricula, senha, a) IN
       /\ session' = o.session
       /\ setCalls' = o.sets
       /\ loginReturn' = o.ret
       /\ result' = DelegatingReturn(o.ret)
       /\ issued' = o.stmts
       /\ settled' = Len(o.stmts)
       /\ thrown' = o.thrown
       /\ cookie' = ClientCookie(cookie, DelegatingReturn(o.ret))
  /\ req' = [handler |-> "login", v |-> "delegating", matricula |-> matricula, senha |-> senha,
             cookie |-> cookie]
  /\ pc' = "done"
  /\ inflight' = {}
  /\ tables' = Null /\ tablesAt' = {} /\ schema' = Null /\ rows' = Null /\ queryError' = Null
  /\ missingAtExec' = FALSE
  /\ UNCHANGED clientVars
  /\ UNCHANGED <<dbTables, dbRowCount, dbPerfil>>

\* ------------------------------------------------ index, admin and logout
\* redirect(url): a 302 with no body and no cookie.
Redirect(url) == Resp(302, Null, ("Location" :> Tpl("%", url)))
\* (mutant) the session is committed, not destroyed.
DestroySession_Commits(s) == [committed |-> TRUE, data |-> s]
\* destroySession(session): the Set-Cookie value that clears the cookie.
DestroySession(s) == [committed |-> FALSE, data |-> EmptySession]
\* session.has("userId")
HasUserId(s) == s.userId # Null
\* (mutant) any session that has a profile passes.
NotAdmin_AnyProfile(s) == s.userProfile = Null
\* session.get("userProfile") !== "Administrador"
NotAdmin(s) == s.userProfile # Some("Administrador")

\* What the atomic handlers below leave of the loader's locals.
NoLoaderLocals ==
  /\ tables' = Null /\ tablesAt' = {} /\ schema' = Null /\ rows' = Null /\ queryError' = Null
  /\ inflight' = {} /\ missingAtExec' = FALSE /\ loginReturn' = Null

\* The modules statement of the index loader, bound to the session's user id.
ModulesStmt(userId) ==
  [sql |-> "modules", orderBy |-> FALSE, table |-> NullStr, quoted |-> FALSE, bind |-> NullStr,
   bindId |-> userId]
\* Modules the permissions of each user's profile give (tb_modulo, tb_permissao).
ModulesOf(userId) ==
  IF userId = 1
  THEN << [id_modulo |-> 1, nome_modulo |-> "pedidos", tipo_modulo |-> "app"],
          [id_modulo |-> 2, nome_modulo |-> "perfis", tipo_modulo |-> "admin"] >>
  ELSE << [id_modulo |-> 1, nome_modulo |-> "pedidos", tipo_modulo |-> "app"] >>
\* What the store can answer to the modules statement.
ModulesAnswers(userId, S) ==
  {[throws |-> TRUE, e |-> Err(StoreDown), results |-> <<>>]}
  \cup {[throws |-> TRUE, e |-> Err(NoSuchTable(t)), results |-> <<>>] : t \in {"tb_usuario"} \ S}
  \cup (IF "tb_usuario" \in S
        THEN {[throws |-> FALSE, e |-> Null, results |-> ModulesOf(userId)]} ELSE {})
\* session.get("userName") || "Usuario"
UserNameOr(s) == IF s.userName = Null \/ ~Truthy(s.userName.val) THEN "Usuario" ELSE s.userName.val
\* (mutant) the modules statement runs before the session is tested.
IndexOutcome_QueriesFirst(s, a) ==
  IF ~HasUserId(s) THEN Outcome(s, <<>>, Redirect("/login"), <<ModulesStmt(0)>>, Null)
  ELSE IF a.throws
  THEN Outcome(s, <<>>, Throw(a.e.message), <<ModulesStmt(s.userId.val)>>,
               Thrown(ModulesStmt(s.userId.val), a.e))
  ELSE Outcome(s, <<>>,
               Json([userName |-> UserNameOr(s),
                     isAdmin |-> (s.userProfile = Some("Administrador")),
                     appModules |-> SelectSeq(a.results, LAMBDA m : m.tipo_modulo = "app")], 200),
               <<ModulesStmt(s.userId.val)>>, Null)
\* The index loader: `await stmt.all()` stands outside any try, so a throw of
\* the store leaves the loader.
IndexOutcome(s, a) ==
  IF ~HasUserId(s) THEN Outcome(s, <<>>, Redirect("/login"), <<>>, Null)
  ELSE IF a.throws
  THEN Outcome(s, <<>>, Throw(a.e.message), <<ModulesStmt(s.userId.val)>>,
               Thrown(ModulesStmt(s.userId.val), a.e))
  ELSE Outcome(s, <<>>,
               Json([userName |-> UserNameOr(s),
                     isAdmin |-> (s.userProfile = Some("Administrador")),
                     appModules |-> SelectSeq(a.results, LAMBDA m : m.tipo_modulo = "app")], 200),
               <<ModulesStmt(s.userId.val)>>, Null)

\* GET /
IndexLoader ==
  /\ Idle
  /\ \E a \in ModulesAnswers(IF HasUserId(cookie) THEN cookie.userId.val ELSE 0, dbTables) :
       LET o == IndexOutcome(cookie, a) IN
       /\ session' = o.session
       /\ setCalls' = o.sets
       /\ result' = o.ret
       /\ issued' = o.stmts
       /\ settled' = Len(o.stmts)
       /\ thrown' = o.thrown
  /\ req' = [handler |-> "index", cookie |-> cookie]
  /\ pc' = "done"
  /\ NoLoaderLocals
  /\ UNCHANGED clientVars
  /\ UNCHANGED <<dbTables, dbRowCount, dbPerfil, cookie>>

\* POST /logout: no store statement; the cookie is cleared.
Logout ==
  /\ Idle
  /\ session' = cookie
  /\ setCalls' = <<>>
  /\ result' = RedirectWithCookie("/login", DestroySession(cookie))
  /\ cookie' = ClientCookie(cookie, RedirectWithCookie("/login", DestroySession(cookie)))
  /\ issued' = <<>> /\ settled' = 0 /\ thrown' = Null
  /\ req' = [handler |-> "logout", cookie |-> cookie]
  /\ pc' = "done"
  /\ NoLoaderLocals
  /\ UNCHANGED clientVars
  /\ UNCHANGED <<dbTables, dbRowCount, dbPerfil>>

\* ------------------------------------------------------------------ admin
\* Rows of tb_perfil at the start; the first two are the users' profiles.
InitialPerfil ==
  { [idtb_perfil |-> 1, ds_perfil |-> "Administrador"],
    [idtb_perfil |-> 2, ds_perfil |-> "Operador"] }
\* Profile ids users refer to (tb_usuario.tb_perfil_idtb_perfil).
ReferencedPerfil == {p.idtb_perfil : p \in InitialPerfil}
\* Profile names in ascending order.
PerfilOrder == <<"Administrador", "Gestor", "Operador">>
PerfilRank(ds) == CHOOSE i \in 1..Len(PerfilOrder) : PerfilOrder[i] = ds
\* Values of the form fields of the admin action.
AdminActions == {NullStr, "create", "delete", "update"}
PerfilNames == {NullStr, " ", "Gestor"}
PerfilIdParams == {Null} \cup {Some(i) : i \in 1..MaxPerfilId}
\* ds_perfil.trim()
Trim(ds) == IF ds = " " THEN "" ELSE ds

\* "SELECT idtb_perfil, ds_perfil FROM tb_perfil ORDER BY ds_perfil"
ProfilesStmt ==
  [sql |-> "profiles", orderBy |-> TRUE, table |-> NullStr, quoted |-> FALSE, bind |-> NullStr]
\* "INSERT INTO tb_perfil (ds_perfil) VALUES (?)"
InsertStmt(ds) ==
  [sql |-> "insert", orderBy |-> FALSE, table |-> NullStr, quoted |-> FALSE, bind |-> ds]
\* "DELETE FROM tb_perfil WHERE idtb_perfil = ?"
DeleteStmt(id) ==
  [sql |-> "delete", orderBy |-> FALSE, table |-> NullStr, quoted |-> FALSE, bind |-> NullStr,
   bindId |-> id]

\* The rows of P ordered by ds_perfil (rows of one name in id order).
ProfilesResults(P) ==
  CHOOSE f \in [1..Cardinality(P) -> P] :
    \A i, j \in 1..Cardinality(P) :
      i < j => \/ PerfilRank(f[i].ds_perfil) < PerfilRank(f[j].ds_perfil)
               \/ /\ f[i].ds_perfil = f[j].ds_perfil
                  /\ f[i].idtb_perfil < f[j].idtb_perfil
\* The id the store gives an inserted row.
NextPerfilId(P) ==
  IF P = {} THEN 1
  ELSE 1 + (CHOOSE m \in {p.idtb_perfil : p \in P} : \A p \in P : p.idtb_perfil <= m)

\* What the store can answer to the profiles statement.
ProfilesAnswers(P, S) ==
  {[throws |-> TRUE, e |-> Err(StoreDown), results |-> <<>>]}
  \cup {[throws |-> TRUE, e |-> Err(NoSuchTable(t)), results |-> <<>>] : t \in {"tb_perfil"} \ S}
  \cup (IF "tb_perfil" \in S
        THEN {[throws |-> FALSE, e |-> Null, results |-> ProfilesResults(P)]} ELSE {})
\* The admin loader: the statement runs inside the try.
AdminLoaderOutcome(s, a) ==
  IF NotAdmin(s) THEN Outcome(s, <<>>, Redirect("/"), <<>>, Null)
  ELSE IF a.throws
  THEN Outcome(s, <<>>, Json([profiles |-> <<>>, error |-> "Falha ao carregar dados."], 200),
               <<ProfilesStmt>>, Thrown(ProfilesStmt, a.e))
  ELSE Outcome(s, <<>>, Json([profiles |-> a.results], 200), <<ProfilesStmt>>, Null)

\* GET /admin
AdminLoader ==
  /\ Idle
  /\ \E a \in ProfilesAnswers(dbPerfil, dbTables) :
       LET o == AdminLoaderOutcome(cookie, a) IN
       /\ session' = o.session
       /\ setCalls' = o.sets
       /\ result' = o.ret
       /\ issued' = o.stmts
       /\ settled' = Len(o.stmts)
       /\ thrown' = o.thrown
  /\ req' = [handler |-> "admin", method |-> "GET", cookie |-> cookie]
  /\ pc' = "done"
  /\ NoLoaderLocals
  /\ UNCHANGED clientVars
  /\ UNCHANGED <<dbTables, dbRowCount, dbPerfil, cookie>>

\* The statement the admin action prepares for a form, if any.
\*   create: only if ds_perfil is a string that is not blank
\*   delete: always, bound to whatever idtb_perfil is
AdminWrite(act, ds, id) ==
  IF act = "create"
  THEN IF ds # NullStr /\ Truthy(Trim(ds)) THEN Some(InsertStmt(ds)) ELSE Null
  ELSE IF act = "delete" THEN Some(DeleteStmt(id))
  ELSE Null
\* tb_perfil after a statement that succeeded.
PerfilAfter(w, P) ==
  IF w.sql = "insert"
  THEN P \cup {[idtb_perfil |-> NextPerfilId(P), ds_perfil |-> w.bind]}
  ELSE {p \in P : Some(p.idtb_perfil) # w.bindId}
\* What the store can answer to a write: it throws (unreachable, table gone,
\* undefined bound, a row users refer to) or it applies the statement.
WriteAnswers(w, P, S) ==
  {[throws |-> TRUE, e |-> Err(StoreDown), perfil |-> P]}
  \cup {[throws |-> TRUE, e |-> Err(NoSuchTable(t)), perfil |-> P] : t \in {"tb_perfil"} \ S}
  \cup (IF w.sql = "delete" /\ w.bindId = Null
        THEN {[throws |-> TRUE, e |-> Err("D1_TYPE_ERROR: Type 'undefined' not supported"),
               perfil |-> P]}
        ELSE IF w.sql = "delete" /\ w.bindId.val \in ReferencedPerfil
        THEN {[throws |-> TRUE, e |-> Err("FOREIGN KEY constraint failed"), perfil |-> P]}
        ELSE IF "tb_perfil" \in S
        THEN {[throws |-> FALSE, e |-> Null, perfil |-> PerfilAfter(w, P)]}
        ELSE {})
\* (mutant) a statement that threw is run a second time.
AdminActionOutcome_Retries(s, w, a) ==
  IF NotAdmin(s) THEN Outcome(s, <<>>, Resp(403, "Unauthorized", TextHeaders), <<>>, Null)
  ELSE IF w = Null THEN Outcome(s, <<>>, Json([ok |-> TRUE], 200), <<>>, Null)
  ELSE Outcome(s, <<>>, Json([ok |-> TRUE], 200),
               IF a.throws THEN <<w.val, w.val>> ELSE <<w.val>>,
               IF a.throws THEN Thrown(w.val, a.e) ELSE Null)
\* (mutant) a statement that threw is reported to the caller.
AdminActionOutcome_Reports(s, w, a) ==
  IF NotAdmin(s) THEN Outcome(s, <<>>, Resp(403, "Unauthorized", TextHeaders), <<>>, Null)
  ELSE IF w = Null THEN Outcome(s, <<>>, Json([ok |-> TRUE], 200), <<>>, Null)
  ELSE Outcome(s, <<>>, Json([ok |-> ~a.throws], IF a.throws THEN 500 ELSE 200), <<w.val>>,
               IF a.throws THEN Thrown(w.val, a.e) ELSE Null)
\* The admin action: whatever the statement does, the catch logs and the action
\* returns { ok: true }.
AdminActionOutcome(s, w, a) ==
  IF NotAdmin(s) THEN Outcome(s, <<>>, Resp(403, "Unauthorized", TextHeaders), <<>>, Null)
  ELSE IF w = Null THEN Outcome(s, <<>>, Json([ok |-> TRUE], 200), <<>>, Null)
  ELSE Outcome(s, <<>>, Json([ok |-> TRUE], 200), <<w.val>>,
               IF a.throws THEN Thrown(w.val, a.e) ELSE Null)

\* POST /admin
AdminAction(act, ds, id) ==
  /\ Idle
  /\ LET w == AdminWrite(act, ds, id)
         runs == ~NotAdmin(cookie) /\ w # Null
     IN
     /\ runs /\ w.val.sql = "insert" => NextPerfilId(dbPerfil) <= MaxPerfilId
     /\ \E a \in (IF runs THEN WriteAnswers(w.val, dbPerfil, dbTables)
                  ELSE {[throws |-> FALSE, e |-> Null, perfil |-> dbPerfil]}) :
          LET o == AdminActionOutcome(cookie, w, a) IN
          /\ dbPerfil' = a.perfil
          /\ session' = o.session
          /\ setCalls' = o.sets
          /\ result' = o.ret
          /\ issued' = o.stmts
          /\ settled' = Len(o.stmts)
          /\ thrown' = o.thrown
  /\ req' = [handler |-> "admin", method |-> "POST", action |-> act, ds_perfil |-> ds,
             idtb_perfil |-> id, cookie |-> cookie]
  /\ pc' = "done"
  /\ NoLoaderLocals
  /\ UNCHANGED clientVars
  /\ UNCHANGED <<dbTables, dbRowCount, cookie>>

\* The handler has returned: the answer leaves and the request's frame is gone.
RequestEnds ==
  /\ pc = "done"
  /\ pc' = "idle"
  /\ req' = [handler |-> "none"]
  /\ tables' = Null /\ tablesAt' = {} /\ schema' = Null /\ rows' = Null /\ queryError' = Null
  /\ inflight' = {} /\ issued' = <<>> /\ settled' = 0
  /\ thrown' = Null /\ missingAtExec' = FALSE
  /\ session' = EmptySession /\ setCalls' = <<>> /\ loginReturn' = Null
  /\ result' = Null
  /\ UNCHANGED <<dbTables, dbRowCount, dbPerfil, cookie>>
Respond ==
  /\ RequestEnds
  /\ UNCHANGED clientVars

Init ==
  /\ dbTables = TableNames
  /\ dbRowCount \in [TableNames -> RowCounts]
  /\ cookie = EmptySession
  /\ pc = "idle"
  /\ req = [handler |-> "none"]
  /\ dbPerfil = InitialPerfil
  /\ tables = Null /\ tablesAt = {} /\ schema = Null /\ rows = Null /\ queryError = Null
  /\ inflight = {} /\ issued = <<>> /\ settled = 0
  /\ thrown = Null /\ missingAtExec = FALSE
  /\ session = EmptySession /\ setCalls = <<>> /\ loginReturn = Null
  /\ result = Null
  /\ DataTableMounted(NullStr) /\ received = Null

Next ==
  \/ \E v \in Variants, t \in TableParams, d \in BOOLEAN : LoaderBegin(v, t, d)
  \/ LoaderTablesOk
  \/ LoaderTablesFail
  \/ LoaderSchemaOk
  \/ LoaderSchemaFail
  \/ LoaderRowsOk
  \/ LoaderRowsFail
  \/ LoaderAllRowsOk
  \/ LoaderAllRowsFail
  \/ \E m \in Matriculas, p \in Senhas : LoginInline(m, p)
  \/ \E m \in Matriculas, p \in Senhas : LoginDelegating(m, p)
  \/ IndexLoader
  \/ Logout
  \/ AdminLoader
  \/ \E act \in AdminActions, ds \in PerfilNames, id \in PerfilIdParams : AdminAction(act, ds, id)
  \/ Respond
  \/ \E t \in TableNames : DropTable(t)

Spec == Init /\ [][Next]_vars

\* -------------------------------------------- the browser and its session
\* The session a login commits for a user.
SessionOf(u) == SetLogin(EmptySession, u)
\* The URL of a /database request: the route's version, ?table= and ?download=.
UrlOf(r) == [v |-> r.v, tableName |-> r.tableName, shouldDownload |-> r.shouldDownload]
\* What the store did for the request being handled: the tables and rows it
\* held, the list it returned, the error it threw, and whether it held the same
\* tables throughout.
StoreAnswers ==
  [tablesAt |-> tablesAt, rowCount |-> dbRowCount, tables |-> tables, thrown |-> thrown,
   steady |-> dbTables = tablesAt]
\* The browser receives the answer of the /database loader to a navigation.
Answered ==
  /\ pc = "done" /\ req.handler = "database" /\ download # "waiting"
  /\ received' = Some([url |-> UrlOf(req), cookie |-> cookie, store |-> StoreAnswers,
                        answer |-> result])
  /\ RequestEnds
  /\ UNCHANGED <<selectedTable, isDownloading, downloadError, download, response, saved, attempt>>

\* A logged-in browser: it requests /database URLs and may log out.
BrowserInit ==
  /\ dbTables = TableNames
  /\ \E n \in RowCounts : dbRowCount = [t \in TableNames |-> n]
  /\ \E u \in {x \in Users : x.st_usuario = 1 /\ x.st_delete = 0} : cookie = SessionOf(u)
  /\ pc = "idle"
  /\ req = [handler |-> "none"]
  /\ dbPerfil = InitialPerfil
  /\ tables = Null /\ tablesAt = {} /\ schema = Null /\ rows = Null /\ queryError = Null
  /\ inflight = {} /\ issued = <<>> /\ settled = 0
  /\ thrown = Null /\ missingAtExec = FALSE
  /\ session = EmptySession /\ setCalls = <<>> /\ loginReturn = Null
  /\ result = Null
  /\ DataTableMounted(NullStr) /\ received = Null

BrowserNext ==
  \/ \E v \in ExportVariants, t \in TableParams, d \in BOOLEAN : LoaderBegin(v, t, d)
  \/ LoaderTablesOk
  \/ LoaderTablesFail
  \/ LoaderSchemaOk
  \/ LoaderSchemaFail
  \/ LoaderRowsOk
  \/ LoaderRowsFail
  \/ LoaderAllRowsOk
  \/ LoaderAllRowsFail
  \/ Answered
  \/ Logout
  \/ req.handler = "logout" /\ Respond
  \/ \E t \in TableNames : DropTable(t)

BrowserSpec == BrowserInit /\ [][BrowserNext]_vars

\* ------------------------------------------------ the page's JSON download
serverVars == <<dbTables, dbRowCount, dbPerfil, cookie, pc, req, tables, tablesAt,
                schema, rows, queryError, inflight, issued, settled, thrown, missingAtExec,
                session, setCalls, loginReturn, result>>

\* What fetch resolves with for what the loader returned: a Response as it is
\* (the body of the export is its bytes, that of an error its text); a returned
\* object is rendered by the route's component into the document, status 200.
Document(data) == [document |-> data]
FetchResponse(r) ==
  IF r.kind # "response" THEN [status |-> 200, body |-> Document(r.data)]
  ELSE IF r.status = 200 THEN [status |-> r.status, body |-> [bytes |-> r.body]]
  ELSE [status |-> r.status, body |-> [text |-> r.body]]
\* response.ok
ResponseOk(r) == r.status >= 200 /\ r.status <= 299
\* errorText || `Download failed. Server responded with status ${response.status}`
ErrorTextOr(r) ==
  IF r.body.text = Raw("") THEN Tpl("Download failed. Server responded with status %", r.status)
  ELSE r.body.text
\* A rejection of fetch, response.text() or response.blob().
NetworkError == Raw("Failed to fetch")
\* a.download = `${selectedTable}.json` with the blob of the body.
SavedFile(t, r) == [download |-> Tpl("%.json", t), blob |-> r.body]

\* (mutant) the error of an earlier attempt is not cleared.
HandleDownload_KeepsError ==
  /\ ~isDownloading
  /\ Truthy(selectedTable)
  /\ isDownloading' = TRUE
  /\ download' = "sent"
  /\ response' = Null
  /\ attempt' = "pending"
  /\ UNCHANGED <<received, selectedTable, saved, downloadError>>
  /\ UNCHANGED serverVars
\* A click on the button (disabled={isDownloading}, rendered for a selected
\* table): handleDownload runs to `await fetch(...)`.
HandleDownload ==
  /\ ~isDownloading
  /\ Truthy(selectedTable)
  /\ isDownloading' = TRUE
  /\ downloadError' = Null
  /\ download' = "sent"
  /\ response' = Null
  /\ attempt' = "pending"
  /\ UNCHANGED <<received, selectedTable, saved>>
  /\ UNCHANGED serverVars
\* fetch(`/database?table=${selectedTable}&download=true`) reaches the loader.
FetchArrives ==
  /\ download = "sent"
  /\ RequestArrives("json", selectedTable, TRUE)
  /\ download' = "waiting"
  /\ UNCHANGED <<received, selectedTable, isDownloading, downloadError, response, saved, attempt>>
\* fetch resolves with the loader's answer.
FetchResolves ==
  /\ download = "waiting" /\ pc = "done"
  /\ response' = Some(FetchResponse(result))
  /\ download' = "reading"
  /\ RequestEnds
  /\ UNCHANGED <<received, selectedTable, isDownloading, downloadError, saved, attempt>>
\* The catch and the finally of handleDownload.
Caught(message) ==
  /\ downloadError' = Some(message)
  /\ isDownloading' = FALSE
  /\ download' = "idle"
  /\ UNCHANGED <<received, selectedTable, saved>>
\* fetch rejects: the request did not reach the server, or its answer was lost.
FetchRejects ==
  /\ \/ download = "sent" /\ UNCHANGED serverVars
     \/ download = "waiting" /\ RequestEnds
  /\ Caught(NetworkError)
  /\ attempt' = "threw"
  /\ UNCHANGED response
\* response.text() or response.blob() resolves: a non-OK answer is thrown with
\* its text, an OK one is handed to the browser as a file.
BodyRead ==
  /\ download = "reading"
  /\ IF ~ResponseOk(response.val)
     THEN /\ Caught(ErrorTextOr(response.val))
          /\ attempt' = "notok"
     ELSE /\ saved' = Some(SavedFile(selectedTable, response.val))
          /\ isDownloading' = FALSE
          /\ download' = "idle"
          /\ attempt' = "saved"
          /\ UNCHANGED <<received, selectedTable, downloadError>>
  /\ UNCHANGED response
  /\ UNCHANGED serverVars
\* response.text() or response.blob() rejects.
BodyFails ==
  /\ download = "reading"
  /\ Caught(NetworkError)
  /\ attempt' = "threw"
  /\ UNCHANGED response
  /\ UNCHANGED serverVars

\* The page of a table is shown and its DataTable has mounted.
ClientInit ==
  /\ dbTables = TableNames
  /\ dbRowCount \in [TableNames -> RowCounts]
  /\ cookie = EmptySession
  /\ pc = "idle"
  /\ req = [handler |-> "none"]
  /\ dbPerfil = InitialPerfil
  /\ tables = Null /\ tablesAt = {} /\ schema = Null /\ rows = Null /\ queryError = Null
  /\ inflight = {} /\ issued = <<>> /\ settled = 0
  /\ thrown = Null /\ missingAtExec = FALSE
  /\ session = EmptySession /\ setCalls = <<>> /\ loginReturn = Null
  /\ result = Null
  /\ received = Null
  /\ \E t \in TableNames : DataTableMounted(t)

ClientNext ==
  \/ HandleDownload
  \/ FetchArrives
  \/ LoaderTablesOk
  \/ LoaderTablesFail
  \/ LoaderAllRowsOk
  \/ LoaderAllRowsFail
  \/ FetchResolves
  \/ FetchRejects
  \/ BodyRead
  \/ BodyFails
  \/ \E t \in TableNames : DropTable(t)

\* The store settles every statement and the fetch and the body's read settle.
ClientSpec ==
  /\ ClientInit
  /\ [][ClientNext]_vars
  /\ WF_vars(FetchArrives)
  /\ WF_vars(LoaderTablesOk \/ LoaderTablesFail)
  /\ WF_vars(LoaderAllRowsFail \/ LoaderAllRowsOk)
  /\ WF_vars(FetchResolves)
  /\ WF_vars(BodyRead)

\* The page's download next to navigations to /database URLs (JSON and CSV
\* versions), the server handling one request at a time.
ExportNext ==
  \/ HandleDownload
  \/ FetchArrives
  \/ FetchResolves
  \/ FetchRejects
  \/ BodyRead
  \/ BodyFails
  \/ \E v \in ExportVariants, t \in TableParams, d \in BOOLEAN : LoaderBegin(v, t, d)
  \/ LoaderTablesOk
  \/ LoaderTablesFail
  \/ LoaderSchemaOk
  \/ LoaderSchemaFail
  \/ LoaderRowsOk
  \/ LoaderRowsFail
  \/ LoaderAllRowsOk
  \/ LoaderAllRowsFail
  \/ download # "waiting" /\ Respond
  \/ \E t \in TableNames : DropTable(t)

ExportSpec == ClientInit /\ [][ExportNext]_vars


\* ------------------------------------------- the serializers on row sets
\* Characters of the texts of the row sets: a plain one, and the ones the
\* serializers treat specially.
Alphabet == {"a", ",", "\"", "\n", "\r", "\\"}
\* Column names of the row sets.
FnKeys == << <<"i", "d">>, <<"n", "o", "m", "e">> >>
\* Numbers of rows and of columns of the row sets.
Shapes == {0, 1, 2} \X {1, 2}
\* What a cell holding no character is: the empty text, or a value that is no text.
EmptyCells == {Str(<<>>), JsNull, Undefined, Num(0), Num(0 - 12), Bool(TRUE), Bool(FALSE)}
\* The number of characters of the first k cells.
RECURSIVE CharsUpTo(_, _)
CharsUpTo(L, k) == IF k = 0 THEN 0 ELSE L[k] + CharsUpTo(L, k - 1)
\* Lengths of m cells holding MaxChars characters at most together.
CellLengths(m) == {L \in [1..m -> 0..MaxChars] : CharsUpTo(L, m) <= MaxChars}
\* The row set of n rows and c columns whose cells cut the text w at the
\* lengths L, row by row.
RowSet(n, c, L, w, empty) ==
  [i \in 1..n |->
     [j \in 1..c |->
        Prop(FnKeys[j],
             IF L[(i - 1) * c + j] = 0 THEN empty
             ELSE Str(SubSeq(w, CharsUpTo(L, (i - 1) * c + j - 1) + 1,
                             CharsUpTo(L, (i - 1) * c + j))))]]
\* The row sets of the specification's examples.
ExampleRows ==
  { << << Prop(FnKeys[1], Num(1)), Prop(FnKeys[2], Str(<<"A", "n", "a">>)) >> >>,
    << << Prop(FnKeys[1], Str(<<"a", ",", "\"", "b", "\"">>)) >> >> }

\* Everything but the call and its result.
fnFrame == <<dbTables, dbRowCount, dbPerfil, cookie, tables, tablesAt, schema, rows,
             queryError, inflight, issued, settled, thrown, missingAtExec,
             session, setCalls, loginReturn,
             selectedTable, isDownloading, downloadError, download, response, saved, attempt,
             received>>

\* A row set is about to be serialized.
FnInit ==
  /\ dbTables = TableNames
  /\ dbRowCount = [t \in TableNames |-> 0]
  /\ dbPerfil = InitialPerfil
  /\ cookie = EmptySession
  /\ pc = "idle"
  /\ tables = Null /\ tablesAt = {} /\ schema = Null /\ rows = Null /\ queryError = Null
  /\ inflight = {} /\ issued = <<>> /\ settled = 0
  /\ thrown = Null /\ missingAtExec = FALSE
  /\ session = EmptySession /\ setCalls = <<>> /\ loginReturn = Null
  /\ result = Null
  /\ DataTableMounted(NullStr) /\ received = Null
  /\ \/ \E d \in ExampleRows : req = [handler |-> "fn", fn |-> "none", data |-> d]
     \/ \E shape \in Shapes, empty \in EmptyCells :
          \E L \in CellLengths(shape[1] * shape[2]) :
            \E w \in [1..CharsUpTo(L, shape[1] * shape[2]) -> Alphabet] :
              req = [handler |-> "fn", fn |-> "none",
                     data |-> RowSet(shape[1], shape[2], L, w, empty)]

\* convertToCSV(data)
FnConvertToCSV ==
  /\ pc = "idle" /\ req.handler = "fn"
  /\ req' = [req EXCEPT !.fn = "convertToCSV"]
  /\ result' = [kind |-> "value", value |-> convertToCSV(req.data)]
  /\ pc' = "done"
  /\ UNCHANGED fnFrame
\* The CSV export's body for the rows the store returned.
FnCsvExport ==
  /\ pc = "idle" /\ req.handler = "fn"
  /\ req' = [req EXCEPT !.fn = "csv"]
  /\ result' = [kind |-> "value", value |-> ExportBody("csv", req.data)]
  /\ pc' = "done"
  /\ UNCHANGED fnFrame
\* The JSON export's body for the rows the store returned.
FnJsonExport ==
  /\ pc = "idle" /\ req.handler = "fn"
  /\ req' = [req EXCEPT !.fn = "json"]
  /\ result' = [kind |-> "value", value |-> ExportBody("json", req.data)]
  /\ pc' = "done"
  /\ UNCHANGED fnFrame

FnNext ==
  \/ FnConvertToCSV
  \/ FnCsvExport
  \/ FnJsonExport

FnSpec == FnInit /\ [][FnNext]_vars


\* ================================================================= claims
IsDb == req.handler = "database"
IsLogin == req.handler = "login"

\* C1: in every version of the database loader a statement that interpolates
\* the table parameter is prepared only after the table-list query of the same
\* request has succeeded and the parameter is a member of the returned list.
C1_InterpolatedOnlyAfterMembership ==
  \A i \in 1..Len(issued) :
    Interpolates(issued[i]) =>
      /\ i > 1
      /\ issued[1].sql = "tables"
      /\ tables # Null
      /\ issued[i].table = req.tableName
      /\ Includes(tables.val, issued[i].table)
C1_Witness == IsDb /\ pc = "await_rows" /\ req.v = "ptbr" /\ Len(issued) = 3

\* C2 as stated: for a request whose table parameter is not in the enumerated
\* list neither the schema statement nor a row query is issued, and with
\* download=true the loader (of a version that has an export path) returns a
\* 404 whose body names that table.
C2_AsStated ==
  (IsDb /\ tables # Null /\ req.tableName # NullStr /\ ~Includes(tables.val, req.tableName)) =>
    /\ \A i \in 1..Len(issued) : ~Interpolates(issued[i])
    /\ (pc = "done" /\ req.shouldDownload /\ req.v \in ExportVariants)
       => /\ result.kind = "response"
          /\ result.status = 404
          /\ result.body.arg = req.tableName

\* C2 (amended): for a request whose table parameter is not in the enumerated
\* list no schema statement and no row query is issued, in any version; with
\* download=true the JSON version returns a 404 naming the table (the empty
\* name for an empty or absent parameter), and the CSV version returns it when
\* the parameter is non-empty: with an empty or absent parameter it takes the
\* page path and returns the page object, error null.
C2_UnknownTableNoQueriesAnd404 ==
  (IsDb /\ tables # Null /\ ~Includes(tables.val, req.tableName)) =>
    /\ \A i \in 1..Len(issued) : ~Interpolates(issued[i])
    /\ (/\ pc = "done" /\ req.shouldDownload /\ req.v \in ExportVariants
        /\ (req.v = "json" \/ Truthy(req.tableName)))
       => /\ result.kind = "response"
          /\ result.status = 404
          /\ result.body.arg = OrEmpty(req.tableName)
    /\ (pc = "done" /\ req.shouldDownload /\ req.v = "csv" /\ ~Truthy(req.tableName))
       => /\ result.kind = "data"
          /\ result.data.connection = "success"
          /\ result.data.error = Null
C2_Witness ==
  /\ IsDb /\ pc = "done" /\ req.v = "csv" /\ req.shouldDownload /\ req.tableName = "nope"
  /\ result.kind = "response" /\ result.status = 404 /\ Len(issued) = 1

\* The store returned an active user whose senha is the submitted one.
MatchingLogin ==
  /\ IsLogin /\ pc = "done" /\ thrown = Null
  /\ ~MissingField(req.matricula, req.senha)
  /\ FirstUser(req.matricula) # Null
  /\ FirstUser(req.matricula).val.senha = req.senha

\* C3: a login with a matching matricula/senha pair sets userId, userName and
\* userProfile in the session and the action's result is a redirect to "/"
\* carrying the committed session cookie, in both versions of the action.
C3_MatchingLoginRedirects ==
  MatchingLogin =>
    /\ session.userId = Some(FirstUser(req.matricula).val.idtb_usuario)
    /\ session.userName = Some(FirstUser(req.matricula).val.nome_usuario)
    /\ session.userProfile = Some(FirstUser(req.matricula).val.ds_perfil)
    /\ result.kind = "response"
    /\ result.status = 302
    /\ result.headers["Location"] = Tpl("%", "/")
    /\ "Set-Cookie" \in DOMAIN result.headers
    /\ result.headers["Set-Cookie"] = CommitSession(session)

\* A login that fails for one of the claim's reasons (the store answered).
FailedLogin ==
  /\ IsLogin /\ pc = "done" /\ thrown = Null
  /\ \/ MissingField(req.matricula, req.senha)
     \/ FirstUser(req.matricula) = Null
     \/ FirstUser(req.matricula).val.senha # req.senha
\* What carries the status of a login: the inline action's result, and the
\* return of login() in the delegating one.
LoginAnswer == IF req.v = "inline" THEN result ELSE loginReturn

\* C4: a failed login (missing matricula or senha, unknown matricula,
\* mismatched senha) returns {error} with status 400 or 401, calls session.set
\* for no key and emits no Set-Cookie, so the session is as it was.
C4_FailedLoginLeavesSession ==
  FailedLogin =>
    /\ LoginAnswer.kind = "response"
    /\ LoginAnswer.status = (IF MissingField(req.matricula, req.senha) THEN 400 ELSE 401)
    /\ DOMAIN LoginAnswer.body = {"error"}
    /\ "Set-Cookie" \notin DOMAIN LoginAnswer.headers
    /\ setCalls = <<>>
    /\ session = (IF req.v = "inline" THEN req.cookie ELSE EmptySession)
    /\ cookie = req.cookie
    /\ (req.v = "delegating" => result.kind = "data" /\ result.data = LoginAnswer.body)
C4_Witness ==
  /\ IsLogin /\ pc = "done" /\ req.v = "inline" /\ req.matricula = "1001" /\ req.senha = "s2"
  /\ req.cookie.userId # Null
  /\ result.kind = "response" /\ result.status = 401

\* C5: for an export request (download=true with a table name) any store
\* failure, in the table-list query or in the full-row query, yields a 500
\* whose plain-text body contains the underlying message.
C5_ExportStoreFailure500 ==
  (/\ IsDb /\ pc = "done" /\ req.v \in ExportVariants
   /\ req.shouldDownload /\ Truthy(req.tableName) /\ thrown # Null)
  => /\ result.kind = "response"
     /\ result.status = 500
     /\ result.body.arg = thrown.message
     /\ result.headers["Content-Type"] = "text/plain;charset=UTF-8"

\* Reading property f of a returned object gives no value: null, or undefined
\* because the object has no such property.
NoValue(d, f) == f \notin DOMAIN d \/ d[f] = (IF f = "selectedTable" THEN NullStr ELSE Null)

C7_RowFailureKeepsListAndSchema ==
  (IsDb /\ pc = "done" /\ thrown # Null /\ thrown.sql = "rows") =>
    /\ result.kind = "data"
    /\ result.data.connection = "success"
    /\ result.data.tables = tables.val
    /\ Includes(result.data.tables, req.tableName)
    /\ schema # Null
    /\ result.data.schema = schema
    /\ (~missingAtExec => result.data.schema = Some(Columns(req.tableName)))
    /\ result.data.rows = Null
    /\ result.data.error = Raw(thrown.message)
    /\ result.data.selectedTable = req.tableName
C7_Witness ==
  /\ IsDb /\ pc = "done" /\ req.v = "csv" /\ thrown # Null /\ thrown.sql = "rows"
  /\ ~missingAtExec /\ result.kind = "data" /\ result.data.schema # Null

\* C8: on a page-view request naming a table that is not in the list, every
\* version of the database loader returns connection "success" with a non-null
\* error naming the table, and schema and rows null.
C8_PageUnknownTableInlineError ==
  (/\ IsDb /\ pc = "done" /\ req.v \in PageVariants /\ ~req.shouldDownload
   /\ tables # Null /\ Truthy(req.tableName) /\ ~Includes(tables.val, req.tableName))
  => /\ result.kind = "data"
     /\ result.data.connection = "success"
     /\ result.data.error # Null
     /\ result.data.error.arg = req.tableName
     /\ result.data.schema = Null
     /\ result.data.rows = Null

\* C9: if the table is dropped after the request's membership check passed and
\* before its schema or row statement runs, the page loader reports a query
\* error (connection "success", table list intact, error the underlying
\* message), the export path answers 500, and nothing is thrown by the loader.
C9_DroppedAfterCheckIsCaught ==
  (IsDb /\ pc = "done" /\ missingAtExec) =>
    /\ thrown # Null
    /\ result.kind # "throw"
    /\ req.path = "page" =>
         /\ result.kind = "data"
         /\ result.data.connection = "success"
         /\ result.data.tables = tables.val
         /\ Includes(result.data.tables, req.tableName)
         /\ result.data.error = Raw(thrown.message)
         /\ result.data.rows = Null
    /\ req.path = "export" =>
         /\ result.kind = "response"
         /\ result.status = 500
         /\ result.body.arg = thrown.message
C9_Witness ==
  /\ IsDb /\ pc = "done" /\ missingAtExec /\ req.path = "export"
  /\ thrown # Null /\ thrown.message = NoSuchTable(req.tableName)

\* C10: within one database request the reads are strictly ordered: a statement
\* is prepared only when every earlier one has settled, the list query comes
\* first, the schema query before the row query, and at no time are two
\* statements of the request in flight.
C10_SequentialReads ==
  IsDb =>
    /\ Cardinality(inflight) <= 1
    /\ Len(issued) = settled + Cardinality(inflight)
    /\ \A i \in 1..Len(issued) :
         /\ (issued[i].sql = "tables") = (i = 1)
         /\ issued[i].sql = "schema" => i = 2
         /\ issued[i].sql = "rows" => i = 3 /\ issued[2].sql = "schema"
         /\ issued[i].sql = "allrows" => i = 2
C10_Witness == IsDb /\ pc = "await_rows" /\ settled = 2 /\ req.v = "json" /\ Cardinality(inflight) = 1

\* C11: in every loader and action a store statement that fails is caught
\* inside the operation and turned into a returned message or response; no
\* store failure leaves the handler as an exception.
C11_StoreFailureNeverPropagates ==
  pc = "done" /\ thrown # Null => result.kind # "throw"

\* A successful export has returned.
Exported == pc = "done" /\ IsDb /\ req.path = "export" /\ result.kind = "response"
            /\ result.status = 200
\* The line breaks of a CSV text that end a line: a line break between quotes
\* belongs to a value.
CsvBreaks(b) ==
  {i \in 1..Len(b) : b[i] = "\n" /\ Cardinality({j \in 1..i : b[j] = "\""}) % 2 = 0}
\* The places of a JSON text where an object opens.
JsonOpens(b) == {i \in 1..Len(b) : b[i] = "{"}
\* The i-th place of a set of places.
Nth(P, i) == CHOOSE q \in P : Cardinality({r \in P : r < q}) = i - 1
\* Whether a text reads `part` from place q on.
ReadsAt(b, q, part) == q + Len(part) - 1 <= Len(b) /\ SubSeq(b, q, q + Len(part) - 1) = part

\* C12: an export serializes every row the store returns for the full-table
\* query, one record per row in the store's order, with no cap at 10 rows.
C12_ExportHasEveryRow ==
  Exported =>
    LET n == dbRowCount[req.tableName]
        b == result.body
        key == Chars(Columns(req.tableName)[1].name)
        breaks == CsvBreaks(b)
        opens == JsonOpens(b)
    IN IF req.v = "csv"
       THEN /\ Cardinality(breaks) = n
            /\ \A i \in 1..n : ReadsAt(b, Nth(breaks, i) + 1, Digits(i) \o <<",">>)
       ELSE /\ Cardinality(opens) = n
            /\ \A i \in 1..n :
                 ReadsAt(b, Nth(opens, i),
                         <<"{", "\n", " ", " ", " ", " ", "\"">> \o key \o <<"\"", ":", " ">> \o
                         Digits(i) \o <<",">>)
\* An export of a table holding more rows than the page's sample, in either format.
C12_Witness ==
  Exported /\ dbRowCount[req.tableName] > 10 /\ req.v = "csv"
  /\ Cardinality(CsvBreaks(result.body)) > 10
C12_WitnessJson ==
  Exported /\ dbRowCount[req.tableName] > 10 /\ req.v = "json"

\* A page whose row sample was read.
Sampled == pc = "done" /\ IsDb /\ req.path = "page" /\ result.kind = "data"
           /\ result.data.connection = "success" /\ result.data.rows # Null
\* C13: for a valid selected table holding n rows the page's row sample has
\* exactly min(n, 10) rows.
C13_SampleIsMinOfRowsAndTen ==
  Sampled =>
    LET n == dbRowCount[req.tableName] IN
    Len(result.data.rows.val) = (IF n < 10 THEN n ELSE 10)
\* The sample of a table holding more than ten rows.
C13_Witness ==
  Sampled /\ dbRowCount[req.tableName] > 10 /\ Len(result.data.rows.val) = 10

\* C14: for a store whose set of tables is T the table list the database loader
\* returns holds exactly the names of T, each once, in ascending order.
C14_TableListIsSortedT ==
  pc = "done" /\ IsDb /\ result.kind = "data" /\ result.data.connection = "success" =>
    LET list == result.data.tables IN
    /\ {list[i] : i \in 1..Len(list)} = tablesAt
    /\ Len(list) = Cardinality(tablesAt)
    /\ \A i, j \in 1..Len(list) :
         i < j => list[i] = "tb_perfil" /\ list[j] = "tb_usuario"
\* A returned list of two tables.
C14_Witness ==
  pc = "done" /\ IsDb /\ result.kind = "data" /\ result.data.connection = "success"
  /\ Len(result.data.tables) = 2

\* C20: every successful export carries Content-Disposition
\* attachment; filename="<table>.<ext>" with the validated table name, and the
\* Content-Type of its format: text/csv; charset=utf-8 with csv, application/json
\* with json.
C20_ExportHeaders ==
  Exported =>
    /\ req.tableName \in tablesAt
    /\ \/ /\ result.headers["Content-Type"] = "text/csv; charset=utf-8"
          /\ result.headers["Content-Disposition"] =
               Tpl("attachment; filename=\"%.csv\"", req.tableName)
          /\ result.body[1] = BOM
       \/ /\ result.headers["Content-Type"] = "application/json"
          /\ result.headers["Content-Disposition"] =
               Tpl("attachment; filename=\"%.json\"", req.tableName)
          /\ result.body[1] = "["
\* A CSV export has returned its attachment.
C20_Witness == Exported /\ req.v = "csv" /\ result.body[1] = BOM

\* A serializer has been applied to the row set of the call.
Called(fn) == pc = "done" /\ req.handler = "fn" /\ req.fn = fn
\* Whether every cell of a row set is of one of the types.
CellsAre(data, types) ==
  \A i \in 1..Len(data) : \A j \in 1..Len(data[i]) : data[i][j].v.type \in types
\* A text with every double quote written twice.
RECURSIVE Doubled(_)
Doubled(s) ==
  IF Len(s) = 0 THEN <<>>
  ELSE (IF Head(s) = "\"" THEN <<"\"", "\"">> ELSE <<Head(s)>>) \o Doubled(Tail(s))
\* Whether a text holds a comma, a double quote, \n or \r.
NeedsQuotes(s) ==
  \E i \in 1..Len(s) : s[i] = "," \/ s[i] = "\"" \/ s[i] = "\n" \/ s[i] = "\r"

\* C15: convertToCSV wraps a stringified value in double quotes, doubling every
\* double quote inside it, if and only if the value holds a comma, a double
\* quote, \n or \r; any other value is written unchanged.
C15_QuotedIffSpecial ==
  Called("convertToCSV") /\ Len(req.data) = 1 /\ Len(req.data[1]) = 1
  /\ req.data[1][1].v.type \notin {"null", "undefined"} =>
    LET s == StringOf(req.data[1][1].v)
        out == result.value
        key == req.data[1][1].k
        field == SubSeq(out, Len(key) + 2, Len(out))
    IN /\ ReadsAt(out, 1, key \o <<"\n">>)
       /\ IF NeedsQuotes(s)
          THEN field = <<"\"">> \o Doubled(s) \o <<"\"">>
          ELSE field = s
\* The value a,"b" has been written as "a,""b""".
C15_Witness ==
  /\ Called("convertToCSV")
  /\ req.data = << << Prop(<<"i", "d">>, Str(<<"a", ",", "\"", "b", "\"">>)) >> >>
  /\ result.value = <<"i", "d", "\n", "\"", "a", ",", "\"", "\"", "b", "\"", "\"", "\"">>

\* An RFC 4180 reader that takes \n as well as \r\n for a line break: the
\* records of the text t from place i on, given the field and the record read
\* so far.  A line break at the end of the text ends the last record.
RECURSIVE CsvScan(_, _, _, _, _, _)
CsvScan(t, i, mode, field, record, records) ==
  IF i > Len(t)
  THEN IF mode = "start" /\ Len(record) = 0 THEN records
       ELSE Append(records, Append(record, field))
  ELSE IF mode = "quoted"
  THEN IF t[i] # "\"" THEN CsvScan(t, i + 1, "quoted", Append(field, t[i]), record, records)
       ELSE IF i < Len(t) /\ t[i + 1] = "\""
       THEN CsvScan(t, i + 2, "quoted", Append(field, "\""), record, records)
       ELSE CsvScan(t, i + 1, "plain", field, record, records)
  ELSE IF t[i] = "\"" /\ mode = "start" THEN CsvScan(t, i + 1, "quoted", <<>>, record, records)
  ELSE IF t[i] = "," THEN CsvScan(t, i + 1, "start", <<>>, Append(record, field), records)
  ELSE IF t[i] = "\n"
  THEN CsvScan(t, i + 1, "start", <<>>, <<>>, Append(records, Append(record, field)))
  ELSE IF t[i] = "\r" /\ i < Len(t) /\ t[i + 1] = "\n"
  THEN CsvScan(t, i + 2, "start", <<>>, <<>>, Append(records, Append(record, field)))
  ELSE CsvScan(t, i + 1, "plain", Append(field, t[i]), record, records)
\* The rows of a CSV text: its records after the header.
CsvRows(t) ==
  LET records == CsvScan(t, 1, "start", <<>>, <<>>, <<>>)
  IN IF Len(records) = 0 THEN <<>> ELSE Tail(records)

\* C16: for every row set whose values are strings, reading the output of
\* convertToCSV with an RFC 4180 reader gives as many rows, and in every cell
\* exactly the original string.
C16_CsvRoundTrip ==
  Called("convertToCSV") /\ CellsAre(req.data, {"string"}) =>
    LET back == CsvRows(result.value) IN
    /\ Len(back) = Len(req.data)
    /\ \A i \in 1..Len(req.data) :
         /\ Len(back[i]) = Len(req.data[i])
         /\ \A j \in 1..Len(req.data[i]) : back[i][j] = req.data[i][j].v.s

\* One line of the CSV text: the cells of a row, null and undefined empty.
ExpectedField(v) ==
  IF v.type \in {"null", "undefined"} THEN <<>>
  ELSE IF NeedsQuotes(StringOf(v)) THEN <<"\"">> \o Doubled(StringOf(v)) \o <<"\"">>
  ELSE StringOf(v)
RECURSIVE ExpectedLine(_)
ExpectedLine(row) ==
  IF Len(row) = 1 THEN ExpectedField(row[1].v)
  ELSE ExpectedField(row[1].v) \o <<",">> \o ExpectedLine(Tail(row))
RECURSIVE ExpectedHeader(_)
ExpectedHeader(row) ==
  IF Len(row) = 1 THEN row[1].k ELSE row[1].k \o <<",">> \o ExpectedHeader(Tail(row))
RECURSIVE ExpectedLines(_)
ExpectedLines(data) ==
  IF Len(data) = 0 THEN <<>>
  ELSE <<"\n">> \o ExpectedLine(Head(data)) \o ExpectedLines(Tail(data))

\* C17: for a row set that is not empty the CSV export's body is the byte-order
\* mark, the column names joined by commas, then one line per row, the lines
\* joined by \n with none after the last, null and undefined cells empty.
C17_CsvBodyLayout ==
  Called("csv") /\ Len(req.data) > 0 =>
    result.value = <<BOM>> \o ExpectedHeader(req.data[1]) \o ExpectedLines(req.data)
\* Rows [{id: 1, nome: "Ana"}] have given BOM + "id,nome\n1,Ana".
C17_Witness ==
  /\ Called("csv")
  /\ req.data = << << Prop(<<"i", "d">>, Num(1)),
                      Prop(<<"n", "o", "m", "e">>, Str(<<"A", "n", "a">>)) >> >>
  /\ result.value = <<BOM, "i", "d", ",", "n", "o", "m", "e", "\n", "1", ",", "A", "n", "a">>

\* C18: for an empty row sequence convertToCSV gives the empty string, with no
\* header line, so the CSV export of a table of no rows carries no column name.
C18_EmptyRowSetNoHeader ==
  /\ Called("convertToCSV") /\ Len(req.data) = 0 => result.value = <<>>
  /\ Called("csv") /\ Len(req.data) = 0 => result.value = <<BOM>>
\* The CSV export's body of no rows is the byte-order mark alone.
C18_Witness == Called("csv") /\ Len(req.data) = 0 /\ Len(result.value) = 1

\* A JSON reader for an array of objects of scalars.  Every operator gives the
\* value read and the place after it, or that the text is no such JSON.
At(t, i) == IF i >= 1 /\ i <= Len(t) THEN t[i] ELSE "<end>"
Read(val, next) == [ok |-> TRUE, val |-> val, next |-> next]
MalformedAt(i) == [ok |-> FALSE, val |-> <<>>, next |-> i]
DigitChars == {"0", "1", "2", "3", "4", "5", "6", "7", "8", "9"}
DigitValue(c) == CHOOSE d \in 0..9 : Digits(d) = <<c>>
RECURSIVE SkipSpace(_, _)
SkipSpace(t, i) == IF At(t, i) \in {" ", "\n"} THEN SkipSpace(t, i + 1) ELSE i
\* The characters of a string up to its closing quote, escapes undone.
RECURSIVE ReadChars(_, _, _)
ReadChars(t, i, acc) ==
  IF i > Len(t) THEN MalformedAt(i)
  ELSE IF t[i] = "\"" THEN Read(acc, i + 1)
  ELSE IF t[i] \in {"\n", "\r"} THEN MalformedAt(i)
  ELSE IF t[i] # "\\" THEN ReadChars(t, i + 1, Append(acc, t[i]))
  ELSE IF At(t, i + 1) = "n" THEN ReadChars(t, i + 2, Append(acc, "\n"))
  ELSE IF At(t, i + 1) = "r" THEN ReadChars(t, i + 2, Append(acc, "\r"))
  ELSE IF At(t, i + 1) \in {"\"", "\\"} THEN ReadChars(t, i + 2, Append(acc, t[i + 1]))
  ELSE MalformedAt(i)
RECURSIVE ReadDigits(_, _, _)
ReadDigits(t, i, acc) ==
  IF At(t, i) \in DigitChars THEN ReadDigits(t, i + 1, 10 * acc + DigitValue(t[i]))
  ELSE Read(acc, i)
ReadScalar(t, i) ==
  IF At(t, i) = "\""
  THEN LET r == ReadChars(t, i + 1, <<>>)
       IN IF ~r.ok THEN r ELSE Read(Str(r.val), r.next)
  ELSE IF At(t, i) = "-" /\ At(t, i + 1) \in DigitChars
  THEN Read(Num(0 - ReadDigits(t, i + 1, 0).val), ReadDigits(t, i + 1, 0).next)
  ELSE IF At(t, i) \in DigitChars
  THEN Read(Num(ReadDigits(t, i, 0).val), ReadDigits(t, i, 0).next)
  ELSE IF ReadsAt(t, i, <<"t", "r", "u", "e">>) THEN Read(Bool(TRUE), i + 4)
  ELSE IF ReadsAt(t, i, <<"f", "a", "l", "s", "e">>) THEN Read(Bool(FALSE), i + 5)
  ELSE IF ReadsAt(t, i, <<"n", "u", "l", "l">>) THEN Read(JsNull, i + 4)
  ELSE MalformedAt(i)
\* The members of an object from the place of a member's name on.
RECURSIVE ReadMembers(_, _, _)
ReadMembers(t, i, acc) ==
  IF At(t, i) # "\"" THEN MalformedAt(i)
  ELSE LET k == ReadChars(t, i + 1, <<>>)
           colon == SkipSpace(t, k.next)
           v == ReadScalar(t, SkipSpace(t, colon + 1))
           after == SkipSpace(t, v.next)
       IN IF ~k.ok \/ At(t, colon) # ":" \/ ~v.ok THEN MalformedAt(i)
          ELSE IF At(t, after) = ","
          THEN ReadMembers(t, SkipSpace(t, after + 1), Append(acc, Prop(k.val, v.val)))
          ELSE IF At(t, after) = "}" THEN Read(Append(acc, Prop(k.val, v.val)), after + 1)
          ELSE MalformedAt(i)
ReadObject(t, i) ==
  IF At(t, i) # "{" THEN MalformedAt(i)
  ELSE IF At(t, SkipSpace(t, i + 1)) = "}" THEN Read(<<>>, SkipSpace(t, i + 1) + 1)
  ELSE ReadMembers(t, SkipSpace(t, i + 1), <<>>)
\* The elements of an array from the place of an element on.
RECURSIVE ReadElements(_, _, _)
ReadElements(t, i, acc) ==
  LET o == ReadObject(t, i)
      after == SkipSpace(t, o.next)
  IN IF ~o.ok THEN MalformedAt(i)
     ELSE IF At(t, after) = ","
     THEN ReadElements(t, SkipSpace(t, after + 1), Append(acc, o.val))
     ELSE IF At(t, after) = "]" THEN Read(Append(acc, o.val), after + 1)
     ELSE MalformedAt(i)
\* JSON.parse(text)
JSONParse(t) ==
  LET open == SkipSpace(t, 1)
      r == IF At(t, SkipSpace(t, open + 1)) = "]" THEN Read(<<>>, SkipSpace(t, open + 1) + 1)
           ELSE ReadElements(t, SkipSpace(t, open + 1), <<>>)
  IN IF At(t, open) # "[" \/ ~r.ok \/ SkipSpace(t, r.next) <= Len(t)
     THEN MalformedAt(1) ELSE r

\* Rows read back, compared with the rows written: as many rows, in order,
\* each with the same names in order and cells of the same type and value.
DeepEqual(back, data) ==
  /\ Len(back) = Len(data)
  /\ \A i \in 1..Len(data) :
       /\ Len(back[i]) = Len(data[i])
       /\ \A j \in 1..Len(data[i]) :
            /\ back[i][j].k = data[i][j].k
            /\ back[i][j].v.type = data[i][j].v.type
            /\ back[i][j].v = data[i][j].v

\* C19: for every row set of scalar cells (string, number, boolean, null),
\* reading the JSON export's body back gives a row sequence deep-equal to the
\* rows the store returned, row order and cell types kept.
C19_JsonRoundTrip ==
  Called("json") /\ CellsAre(req.data, {"string", "number", "boolean", "null"}) =>
    (JSONParse(result.value).ok /\ DeepEqual(JSONParse(result.value).val, req.data))
\* Two rows, one with a text holding a quote or a backslash, one with a cell
\* that is no text, have been read back.
C19_Witness ==
  /\ Called("json") /\ Len(req.data) = 2
  /\ \E i, j \in 1..2 : req.data[i][1].v.type = "string"
                        /\ IncludesAny(req.data[i][1].v.s, {"\"", "\\"})
                        /\ req.data[j][1].v.type \in {"number", "boolean", "null"}
  /\ (JSONParse(result.value).ok /\ DeepEqual(JSONParse(result.value).val, req.data))

\* C22: the logout action, for any incoming session, returns a redirect to
\* /login whose Set-Cookie is what destroySession gives for that session (the
\* cookie emptied), and it issues no store statement.
C22_LogoutDestroysSession ==
  pc = "done" /\ req.handler = "logout" =>
    /\ result.kind = "response" /\ result.status = 302
    /\ result.headers["Location"] = Tpl("%", "/login")
    /\ result.headers["Set-Cookie"] = [committed |-> FALSE, data |-> EmptySession]
    /\ session = req.cookie
    /\ cookie = EmptySession
    /\ Len(issued) = 0
\* A logged-in client has logged out.
C22_Witness ==
  pc = "done" /\ req.handler = "logout" /\ req.cookie.userId # Null /\ cookie = EmptySession

\* A step that is a whole admin action.
AdminActionStep ==
  pc = "idle" /\ pc' = "done" /\ req'.handler = "admin" /\ req'.method = "POST"
\* INSERT and DELETE statements among a request's statements.
Mutating(stmts) == {i \in 1..Len(stmts) : stmts[i].sql \in {"insert", "delete"}}

\* C23: an admin create or delete whose statement fails leaves tb_perfil as it
\* was before the request, and every admin action issues at most one mutating
\* statement.
C23_FailedWriteLeavesPerfil ==
  [][AdminActionStep =>
       /\ Cardinality(Mutating(issued')) <= 1
       /\ (thrown' # Null => dbPerfil' = dbPerfil)]_vars
\* An administrator's delete has failed.
C23_Witness ==
  pc = "done" /\ req.handler = "admin" /\ req.method = "POST" /\ req.action = "delete"
  /\ thrown # Null /\ Len(issued) = 1

\* No statement of the request was issued twice.
IssuedOnce == \A i, j \in 1..Len(issued) : i # j => issued[i] # issued[j]

\* C24 as stated: every request issues at most two store statements, each at
\* most once.
C24_AsStated == Len(issued) <= 2 /\ IssuedOnce
\* C24: every request issues at most three store statements, each at most
\* once: three only on the page of a selected table that is in the list (table
\* list, schema, row sample), at most two on an export, one at most anywhere
\* else.
C24_AtMostThreeStatementsOnce ==
  /\ Len(issued) <= 3
  /\ IssuedOnce
  /\ Len(issued) = 3 =>
       /\ IsDb /\ req.path = "page" /\ Includes(tables.val, req.tableName)
       /\ issued[1].sql = "tables" /\ issued[2].sql = "schema" /\ issued[3].sql = "rows"
  /\ Len(issued) = 2 => IsDb
  /\ pc # "idle" /\ ~IsDb => Len(issued) <= 1
\* A page of a selected table has returned after its three statements.
C24_Witness ==
  pc = "done" /\ IsDb /\ Len(issued) = 3 /\ settled = 3 /\ result.kind = "data"
  /\ result.data.rows # Null

\* A step that is a whole admin request of a session whose userProfile is not
\* "Administrador".
NonAdminStep ==
  pc = "idle" /\ pc' = "done" /\ req'.handler = "admin"
  /\ req'.cookie.userProfile # [val |-> "Administrador"]

\* C25: for a session whose userProfile is not exactly "Administrador" (or that
\* has none) the admin action returns 403 and issues no INSERT or DELETE, the
\* admin loader returns a redirect to / and issues no profile query, and
\* tb_perfil is unchanged.
C25_NonAdminIsTurnedAway ==
  [][NonAdminStep =>
       /\ result'.kind = "response"
       /\ req'.method = "POST" => result'.status = 403
       /\ req'.method = "GET" => /\ result'.status = 302
                                 /\ result'.headers["Location"] = Tpl("%", "/")
       /\ Len(issued') = 0
       /\ dbPerfil' = dbPerfil]_vars
\* A logged-in operator's create has been answered 403.
C25_Witness ==
  pc = "done" /\ req.handler = "admin" /\ req.method = "POST" /\ req.action = "create"
  /\ req.ds_perfil = "Gestor" /\ req.cookie.userProfile = [val |-> "Operador"]
  /\ result.status = 403

\* C26: the index loader, for a session that has no userId, returns a redirect
\* to /login and issues no store query; only a session with userId causes the
\* modules query to run, bound to that session's userId.
C26_IndexQueriesOnlyForUser ==
  pc = "done" /\ req.handler = "index" =>
    /\ req.cookie.userId = Null =>
         /\ result.kind = "response" /\ result.status = 302
         /\ result.headers["Location"] = Tpl("%", "/login")
         /\ Len(issued) = 0
    /\ Len(issued) > 0 =>
         /\ req.cookie.userId # Null
         /\ Len(issued) = 1
         /\ issued[1].sql = "modules"
         /\ issued[1].bindId = req.cookie.userId.val
\* The modules query has run for a logged-in session.
C26_Witness ==
  pc = "done" /\ req.handler = "index" /\ req.cookie.userId = [val |-> 2]
  /\ Len(issued) = 1 /\ result.kind = "response" /\ result.status = 200

\* The stored users with the request's matricula and senha.
Credentialed == {u \in Users : u.matricula = req.matricula /\ u.senha = req.senha}
\* The login has logged someone in: a session field was set, or the answer is
\* a redirect or carries a cookie.
LoggedIn ==
  \/ setCalls # <<>>
  \/ (LoginAnswer.kind = "response" /\ LoginAnswer.status = 302)
  \/ (LoginAnswer.kind = "response" /\ "Set-Cookie" \in DOMAIN LoginAnswer.headers)

\* C27: a login logs in only a stored user with st_usuario = 1 and
\* st_delete = 0 whose senha was given; for a deactivated or soft-deleted user
\* with the right senha the store's answer is no row, the login answers 401
\* {error} and sets no session field, and the client's cookie stays as it was.
C27_OnlyActiveUsersLogIn ==
  IsLogin /\ pc = "done" =>
    /\ LoggedIn =>
         \E u \in Credentialed : u.st_usuario = 1 /\ u.st_delete = 0
    /\ ( /\ thrown = Null
         /\ Credentialed # {}
         /\ \A u \in Credentialed : u.st_usuario # 1 \/ u.st_delete # 0 ) =>
         /\ LoginAnswer.kind = "response"
         /\ LoginAnswer.status = 401
         /\ DOMAIN LoginAnswer.body = {"error"}
         /\ "Set-Cookie" \notin DOMAIN LoginAnswer.headers
         /\ setCalls = <<>>
         /\ cookie = req.cookie
\* A soft-deleted user with the right senha has been answered 401.
C27_Witness ==
  /\ IsLogin /\ pc = "done" /\ thrown = Null
  /\ req.matricula = "1004" /\ req.senha = "s2"
  /\ LoginAnswer.kind = "response" /\ LoginAnswer.status = 401
  /\ setCalls = <<>>

\* An admin action of a session whose profile is "Administrador" has answered.
AdminActed ==
  /\ pc = "done" /\ req.handler = "admin" /\ req.method = "POST"
  /\ req.cookie.userProfile = [val |-> "Administrador"]
\* The form's ds_perfil is absent or blank.
BlankPerfil == req.ds_perfil \in {NullStr, "", " "}

Downloading == download \in {"sent", "waiting", "reading"}
\* The last attempt failed: fetch or the body's read threw, or the answer's
\* status was not an OK one.
AttemptFailed ==
  \/ attempt = "threw"
  \/ response # Null /\ response.val.status \notin 200..299
\* A step that starts handleDownload's fetch.
DownloadStarts == download # "sent" /\ download' = "sent"

\* C29: in the page's JSON download a click sets isDownloading and clears
\* downloadError before the fetch, and they stay so while the attempt runs;
\* every attempt ends, with isDownloading false, whether the fetch resolved
\* with an OK answer, with a non-OK one, or threw; after an attempt
\* downloadError is non-null exactly when the attempt failed; and no download
\* starts while isDownloading holds (the button is disabled), so none starts
\* while another is running. A failed attempt is one the client sees fail: an
\* answer with status 200 counts as a success whatever its body.
C29_DownloadState ==
  /\ [](Downloading => isDownloading /\ downloadError = Null)
  /\ [](~Downloading => ~isDownloading)
  /\ [](~Downloading /\ attempt # "none" => (downloadError # Null <=> AttemptFailed))
  /\ [][DownloadStarts => ~isDownloading /\ ~Downloading
                           /\ isDownloading' /\ downloadError' = Null]_vars
  /\ (isDownloading ~> ~isDownloading)
\* An attempt answered 500 has ended with its text in downloadError.
C29_Witness ==
  /\ ~Downloading /\ ~isDownloading
  /\ response # Null /\ response.val.status = 500
  /\ downloadError = [val |-> response.val.body.text]

\* Two answers of the loader are the same: kind, then status, headers and body
\* of a Response, or the returned object.
SameAnswer(a, b) ==
  /\ a.kind = b.kind
  /\ a.kind = "response" => a.status = b.status /\ a.headers = b.headers /\ a.body = b.body
  /\ a.kind = "data" => a.data = b.data
\* The request that has just been handled has the URL of the one the browser
\* made before, and the store held and answered the same for both, without
\* changing while the request was handled.
SameUrlSameStore ==
  /\ pc = "done" /\ IsDb
  /\ received # Null
  /\ received.val.url = UrlOf(req)
  /\ received.val.store = StoreAnswers
  /\ dbTables = tablesAt

\* C30: the answer of the /database loader (JSON and CSV versions) does not
\* depend on the session: a request with the same URL as an earlier one, served
\* from the same store state, gets the same answer (table list, schema, rows,
\* or export status, headers and body), whatever the cookies of the two were.
C30_AnswerIgnoresSession ==
  SameUrlSameStore => SameAnswer(received.val.answer, result)
\* An export answered to a browser that has logged out, after the same export
\* was answered to it while logged in.
C30_Witness ==
  /\ SameUrlSameStore
  /\ received.val.cookie.userId # Null /\ cookie.userId = Null
  /\ req.path = "export" /\ result.kind = "response" /\ result.status = 200
  /\ dbRowCount[req.tableName] > 0

\* A JSON export has been answered 200 to the request being handled.
JsonExported == Exported /\ req.v = "json"
\* The download of the page has handed the browser the body of a JSON export.
SavedExport == saved # Null /\ "bytes" \in DOMAIN saved.val.blob
\* The pretty-printed rows the store holds of table t.
RowsAsJson(t) == JSONStringify(AllRows(t, dbRowCount[t]))

====
